---------------------------- MODULE Spec2Model ----------------------------
(***************************************************************************)
(* Prompt generators of the RAG repository: the tool profile registries,   *)
(* the vector index, retrieval and prompt assembly of                      *)
(*   MultiToolPromptGenerator          (generators/basic_generator.py)     *)
(*   EnhancedMultiToolGenerator        (generators/enhanced_generator.py)  *)
(*   ToolSpecificPromptGenerator       (generators/tool_specific_...py)    *)
(*   GeminiToolSpecificPromptGenerator (generators/gemini_tool_...py)      *)
(*   LovablePromptGeneratorGemini      (generators/build_prompt_gemini.py) *)
(*                                                                         *)
(* A prompt is a record [parts, context]: parts is the sequence of text    *)
(* fragments of the rendered string, every interpolated field a fragment   *)
(* of its own, and context is the sequence of retrieved chunks that are    *)
(* interpolated at the fragment DOCS.  Scores are in tenths (0.5 is 5).    *)
(***************************************************************************)
EXTENDS Integers, Sequences, FiniteSets, TLC

\* ------------------------------------------------------------------ bounds
\* Most chunks one tool folder contributes to the index.
MaxChunks == 3
\* Most entries of a requirements list of a request.
MaxReqs == 1
\* The most documents one call hands to the embedding manager.
MaxDocs == 3
\* The longest document content and the largest max_chunk_size, in characters.
MaxContent == 4
MaxChunkSize == 3

\* ------------------------------------------------------------------- types
SupportedTool ==
    {"lovable", "uizard", "adalo", "flutterflow", "framer", "bubble", "bolt",
     "cursor", "cline", "v0", "devin", "windsurf", "roocode", "manus", "same_dev"}

PromptStage ==
    {"app_skeleton", "page_ui", "flow_connections", "feature_specific",
     "debugging", "optimization"}

\* The value Python's None takes in the model.
None == "None"

\* Fields of the ToolProfile dataclass; none of them has a default value.
ToolProfileFields ==
    {"tool_name", "format", "tone", "preferred_use_cases", "few_shot_examples",
     "prompting_guidelines", "categories", "stage_templates", "vector_namespace",
     "prompting_strategies", "constraints", "optimization_tips", "common_pitfalls"}

\* A dataclass constructor raises TypeError unless every field without a default
\* is passed.
DataclassInitOK(required, passed) == required \subseteq passed

\* ------------------------------------------------------- the request space
\* Tools a request names: members of SupportedTool with and without a built-in
\* profile, and a string that is no tool at all.
RequestEnumTools == {"lovable", "bolt", "cursor"}
UnknownToolName == "not_a_real_tool"
RequestToolNames == RequestEnumTools \cup {UnknownToolName}
\* Stage strings of the generators whose TaskContext.stage is a plain string.
StageStrings == {"planning", "app_skeleton"}
\* One task type that the built-in lovable profile prefers, one that the default
\* profile of the basic generator prefers in another letter case, one that nobody prefers.
TaskTypes == {"react_development", "App Development", "ui_design"}
ProjectNames == {"TaskMaster Pro"}
Descriptions == {"Implement secure login"}
ReqItems == {"responsive"}

RECURSIVE SeqsUpTo(_, _)
SeqsUpTo(S, n) ==
    IF n = 0 THEN {<<>>}
    ELSE LET shorter == SeqsUpTo(S, n - 1)
         IN  shorter \cup {Append(s, x) : s \in {t \in shorter : Len(t) = n - 1}, x \in S}

ReqLists == SeqsUpTo(ReqItems, MaxReqs)

Range(s) == {s[i] : i \in 1..Len(s)}

\* project_info handed to the generators that take one.
ProjectInfos ==
    [name : ProjectNames, description : {"Team task board"},
     tech_stack : {<<>>, <<"React">>}, target_audience : {"Teams"},
     requirements : {<<>>}]


\* ------------------------------------------------------ string conversions
\* str.lower() on the strings of the request space.
Lower(s) ==
    CASE s = "App Development" -> "app development"
      [] OTHER -> s

\* str.title(): the first letter of every run of letters in upper case, the rest lower.
Title(s) ==
    CASE s = "lovable" -> "Lovable"
      [] s = "bolt" -> "Bolt"
      [] s = "cursor" -> "Cursor"
      [] s = "not_a_real_tool" -> "Not_A_Real_Tool"
      [] s = "planning" -> "Planning"
      [] s = "app_skeleton" -> "App_Skeleton"
      [] s = "page_ui" -> "Page_Ui"
      [] s = "flow_connections" -> "Flow_Connections"
      [] s = "feature_specific" -> "Feature_Specific"
      [] s = "debugging" -> "Debugging"
      [] s = "optimization" -> "Optimization"
      [] s = "react_development" -> "React_Development"
      [] s = "App Development" -> "App Development"
      [] s = "ui_design" -> "Ui_Design"
      [] s = "react development" -> "React Development"
      [] s = "app development" -> "App Development"
      [] s = "ui design" -> "Ui Design"
      [] s = "not a real tool" -> "Not A Real Tool"
      [] OTHER -> s

\* str.replace('_', ' ').
Unders(s) ==
    CASE s = "react_development" -> "react development"
      [] s = "ui_design" -> "ui design"
      [] s = "not_a_real_tool" -> "not a real tool"
      [] s = "App_Skeleton" -> "App Skeleton"
      [] s = "Page_Ui" -> "Page Ui"
      [] s = "Flow_Connections" -> "Flow Connections"
      [] s = "Feature_Specific" -> "Feature Specific"
      [] OTHER -> s

\* '\n'.join(f"- {x}" for x in xs): one "- " fragment and the item, per item.
RECURSIVE Bullets(_)
Bullets(xs) ==
    IF xs = <<>> THEN <<>> ELSE <<"- ", Head(xs)>> \o Bullets(Tail(xs))

\* ------------------------------------------------------------ environment
\* Tool folders data/<tool>_docs that may hold documentation.
DocTools == {"lovable", "bolt"}
\* Contents of the configuration directory the process may start with.
ConfigSets == {{}, {"lovable"}, {"lovable", "cursor"}}
Kinds == {"basic", "enhanced", "tool_specific", "gemini_tool", "lovable_gemini",
          "db_script", "db_updater", "app_server", "query_script",
          "db_script_gemini", "cli", "cli_gemini", "embedding_manager", "chunker"}
\* Scripts that read no documentation of their own.
ScriptKinds ==
    {"db_script_gemini", "cli", "cli_gemini", "embedding_manager", "chunker"}
\* Request threads of the Flask development server (threaded=True).
Threads == {"t1", "t2"}

\* An index: tool -> number of chunks stored with that tool as metadata.
Indexes == [DocTools -> 0..MaxChunks]
EmptyIndex == [t \in DocTools |-> 0]
\* Key of the one store of the generators that hold a single vector_store.
SingleStore == "vector_store"

VARIABLES
    configDir,      \* config/tools exists
    configFiles,    \* tools with a YAML configuration file
    docsOnDisk,     \* tool -> number of chunks its docs folder yields (0: no folder)
    chromaExists,   \* the persisted index directory exists
    chroma,         \* the persisted index (EmptyIndex while the directory is absent)
    yamlStrategies, \* what the config files hold under prompting_strategies
    kind,           \* the generator class this process instantiates
    phase,          \* "new", "ready" (constructed), "failed" (constructor raised)
    registry,       \* tool_profiles / tools_config: tool -> profile record
    vector_stores,  \* keys of the stores held: tools (basic), SingleStore (the others)
    result,         \* what the last call gave back
    collections,    \* names of the collections of the persistent chroma client
    inflight,       \* thread -> the request it is serving and how far it got
    manager         \* EmbeddingManager: its cached handle and the persisted collection

vars == <<configDir, configFiles, docsOnDisk, chromaExists, chroma, yamlStrategies,
          kind, phase, registry, vector_stores, result, collections, inflight,
          manager>>
env == <<configDir, configFiles, docsOnDisk, chromaExists, chroma, yamlStrategies>>

\* The chunks of an index, each carrying its tool metadata.
Chunks(idx) == UNION {{[tool |-> t, n |-> i] : i \in 1..idx[t]} : t \in DocTools}

NoPrompt == [parts |-> <<>>, context |-> <<>>]
NoProject ==
    [name |-> None, description |-> None, tech_stack |-> <<>>,
     target_audience |-> None, requirements |-> <<>>]
NoRequest ==
    [tool |-> None, stage |-> None, task_type |-> None, project_name |-> None,
     description |-> None, technical_requirements |-> <<>>, ui_requirements |-> <<>>,
     constraints |-> <<>>, project_info |-> NoProject, include_optimizations |-> FALSE,
     query_fails |-> FALSE, template |-> "ok"]
\* The id add_documents makes up for the document at a position of its list, and
\* the id a caller passes for the document at a position of the whole list.
GeneratedId(i) == <<"doc", i>>
CallerId(i) == <<"id", i>>

\* _collection (whether a handle is cached) and the collection of the persistent
\* client under collection_name: whether it exists, and the ids it holds.
NoManager == [cached |-> FALSE, exists |-> FALSE, ids |-> {}]

\* A new manager has no handle; the persist directory may hold the collection of
\* an earlier run.
InitialManagers ==
    {NoManager, [NoManager EXCEPT !.exists = TRUE],
     [NoManager EXCEPT !.exists = TRUE, !.ids = {GeneratedId(0)}]}

\* What the validators look at: the length of the prompt ("short", "ok", "long"
\* against the validator's limits), whether it names the tool, how many of the
\* validator's section words it holds, whether it holds a word for technical
\* detail, and the confidence (in tenths), sources and next stage of the result.
NoFeatures ==
    [length |-> "ok", names_tool |-> FALSE, sections |-> 0, technical |-> FALSE,
     confidence |-> 0, sources |-> FALSE, next_stage |-> FALSE]

\* The files of the documentation folders, each readable ("ok") or not.
DocFiles == {"guide.md", "prompts.md"}
Folders == [DocTools \X DocFiles -> {"ok", "unreadable"}]
NoFolders == [d \in DocTools \X DocFiles |-> "ok"]
ReadableFiles(folders) == {d \in DocTools \X DocFiles : folders[d] = "ok"}

\* Command-line arguments and what the run meets: whether the generator can be
\* built, whether generation succeeds, whether the output file can be opened.
NoArgs ==
    [task |-> FALSE, project |-> FALSE, interactive |-> FALSE, suggestions |-> FALSE,
     example |-> FALSE, config |-> "none", output |-> FALSE, rag |-> FALSE,
     init |-> "ok", gen_ok |-> TRUE, write_ok |-> TRUE]

NoResult ==
    [op |-> "none", outcome |-> "none", error |-> "", request |-> NoRequest,
     queried |-> FALSE, retrieved |-> <<>>, prompt |-> NoPrompt, confidence |-> -1,
     sources |-> <<>>, tone |-> "", fallback |-> FALSE, next_stage |-> None,
     applied_strategy |-> None, walk |-> <<>>,
     written |-> EmptyIndex, before |-> EmptyIndex, repeat |-> FALSE,
     scores |-> <<>>, used |-> <<>>, filename |-> <<>>, category |-> None,
     folders |-> NoFolders, loaded |-> {}, args |-> NoArgs,
     documents |-> <<>>, chunked |-> <<>>, max_chunk_size |-> 0,
     features |-> NoFeatures, score |-> -1, is_valid |-> FALSE,
     reset |-> FALSE, with_ids |-> FALSE, n |-> 0, batch_size |-> 0,
     ids_before |-> {}, ids_after |-> {}, exit_code |-> -1, wrote_prompt |-> FALSE]

\* No call is in progress: the caller has taken the last result.
Idle == result.op = "none"

\* A call that let an exception escape to its caller.
Raised(op, req, err) ==
    [NoResult EXCEPT !.op = op, !.outcome = "raised", !.error = err, !.request = req]

\* The requests: task context, project info, and what the environment does during
\* the call (the similarity query raising; the template missing or failing to render).
Requests(tools, stages, types, cons, projects, opts, faults, templates) ==
    [tool : tools, stage : stages, task_type : types, project_name : ProjectNames,
     description : Descriptions, technical_requirements : ReqLists,
     ui_requirements : ReqLists, constraints : cons, project_info : projects,
     include_optimizations : opts, query_fails : faults, template : templates]

\* Direct calls of a retrieval method: a tool name, and whether the search raises.
RetrievalRequests(tools) ==
    {[NoRequest EXCEPT !.tool = t, !.query_fails = f] : t \in tools, f \in BOOLEAN}

DefaultProject == CHOOSE p \in ProjectInfos : p.tech_stack = <<"React">>

\* ------------------------------------------------------------ vector index
Min(a, b) == IF a < b THEN a ELSE b

\* A set of chunks as a list, in one fixed order.
RECURSIVE SetToSeq(_)
SetToSeq(S) ==
    IF S = {} THEN <<>>
    ELSE LET x == CHOOSE y \in S : \A z \in S :
                     \/ y.tool = z.tool /\ y.n <= z.n
                     \/ y.tool = "bolt" /\ z.tool = "lovable"
         IN  <<x>> \o SetToSeq(S \ {x})

\* Chroma's similarity_search(query, k, filter): the k nearest chunks among those
\* whose metadata matches the filter (all chunks when the filter is None).  Which
\* chunks are nearest is the embedding's business: every choice of k is possible.
SimilaritySearch(idx, k, filter) ==
    LET eligible == IF filter = None THEN Chunks(idx)
                    ELSE {c \in Chunks(idx) : c.tool = filter}
        n == Min(k, Cardinality(eligible))
    IN  {SetToSeq(T) : T \in {U \in SUBSET eligible : Cardinality(U) = n}}

\* xs[:n]
Take(xs, n) == SubSeq(xs, 1, Min(n, Len(xs)))

\* ---------------------------------------------------------- tool profiles
\* A profile, with the fields the generators read.
\* strategies holds the keys of the prompting strategies and strategy_values says
\* what the values under those keys are: "flags" (booleans) or "templates" (a
\* mapping with a 'template' entry each).
Profile(name, format, tone, framework, use_cases, strategies, namespace) ==
    [tool_name |-> name, format |-> format, tone |-> tone, framework |-> framework,
     preferred_use_cases |-> use_cases, strategies |-> strategies,
     strategy_values |-> "templates", vector_namespace |-> namespace]

\* The registry with no profile in it.
EmptyRegistry == [t \in {} |-> Profile("", "", "", "", {}, {}, "")]

\* Keyword arguments MultiToolPromptGenerator passes to ToolProfile(...), both in
\* _load_tool_profile and in _get_default_tool_profile.
BasicProfileArgs ==
    {"tool_name", "format", "tone", "preferred_use_cases", "few_shot_examples",
     "prompting_guidelines", "categories", "stage_templates", "vector_namespace"}

\* Keyword arguments EnhancedMultiToolGenerator passes to ToolProfile(...).
EnhancedProfileArgs == ToolProfileFields

\* ================================================ MultiToolPromptGenerator
\* ToolProfile(...) as MultiToolPromptGenerator calls it: TypeError unless every
\* required field is passed.
BasicToolProfileOK == DataclassInitOK(ToolProfileFields, BasicProfileArgs)

\* The profile _get_default_tool_profile describes (vector_namespace
\* "<tool>_docs" is keyed by the tool).
BasicDefaultProfile(tool) ==
    Profile(Title(tool), "markdown", "professional and helpful", "",
            {"app development", "ui design", "prototyping"}, {}, tool)

\* _load_tool_profile: TRUE when it returns a profile, FALSE when it raises.  With a
\* config file it builds ToolProfile from the file, without one it hands over to
\* _get_default_tool_profile inside the FileNotFoundError handler; both construct
\* a ToolProfile.
BasicLoadToolProfileOK(tool, files) ==
    IF tool \in files THEN BasicToolProfileOK ELSE BasicToolProfileOK

\* _initialize_tools: the tools whose initialisation did not raise get a profile;
\* an exception is printed as a warning and the tool is left out.
BasicInitializedTools(files) == {t \in SupportedTool : BasicLoadToolProfileOK(t, files)}

\* _initialize_tool_vector_store / _create_tool_vector_store for the initialised
\* tools: an existing directory is loaded, else a store is created when the tool's
\* docs folder holds documents.
BasicVectorStores(tools, exists, docs) ==
    {t \in tools : exists \/ (t \in DocTools /\ docs[t] > 0)}

BasicConstruct ==
    /\ kind = "basic" /\ phase = "new"
    /\ LET tools == BasicInitializedTools(configFiles)
           stores == BasicVectorStores(tools, chromaExists, docsOnDisk)
       IN  /\ registry' = [t \in tools |-> BasicDefaultProfile(t)]
           /\ vector_stores' = stores
           /\ chromaExists' = (chromaExists \/ stores # {})
           /\ chroma' = IF chromaExists THEN chroma
                        ELSE [t \in DocTools |-> IF t \in stores THEN docsOnDisk[t] ELSE 0]
    /\ phase' = "ready"
    /\ result' = [NoResult EXCEPT !.op = "construct", !.outcome = "returned"]
    /\ UNCHANGED <<collections, inflight, configDir, configFiles, docsOnDisk, yamlStrategies, manager, kind>>

\* get_relevant_context(tool, ...): the lists it may return.  No store for the tool:
\* []; the search raising: []; else the results scoring above 0.6, whichever they are.
BasicGetRelevantContext(stores, idx, tool, fails) ==
    IF tool \notin stores THEN {<<>>}
    ELSE IF fails THEN {<<>>}
    ELSE UNION {{SetToSeq(T) : T \in SUBSET Range(r)} : r \in SimilaritySearch(idx, 5, tool)}

\* _calculate_confidence_score without the final min(1.0, score).
BasicConfidenceUnclipped(context_docs, task_context, tool_profile) ==
    5 + (IF context_docs # <<>> THEN 2 + (IF Len(context_docs) >= 3 THEN 1 ELSE 0) ELSE 0)
      + (IF Lower(task_context.task_type)
              \in {Lower(u) : u \in tool_profile.preferred_use_cases} THEN 2 ELSE 0)
      + (IF task_context.technical_requirements # <<>> THEN 1 ELSE 0)
      + (IF task_context.ui_requirements # <<>> THEN 1 ELSE 0)

\* Variant: the score returned without the final clip.
BasicScoreWithoutClip(context_docs, task_context, tool_profile) ==
    BasicConfidenceUnclipped(context_docs, task_context, tool_profile)

\* _calculate_confidence_score, in tenths: the sum clipped by min(1.0, score).
BasicCalculateConfidenceScore(context_docs, task_context, tool_profile) ==
    Min(10, BasicConfidenceUnclipped(context_docs, task_context, tool_profile))

\* Variant: the table sends optimization back to debugging.
BasicSuggestNextStageLoop(current_stage) ==
    CASE current_stage = "app_skeleton" -> "page_ui"
      [] current_stage = "page_ui" -> "flow_connections"
      [] current_stage = "flow_connections" -> "feature_specific"
      [] current_stage = "feature_specific" -> "optimization"
      [] current_stage = "debugging" -> "optimization"
      [] current_stage = "optimization" -> "debugging"
      [] OTHER -> None

\* _suggest_next_stage: the stage_progression table.
BasicSuggestNextStage(current_stage) ==
    CASE current_stage = "app_skeleton" -> "page_ui"
      [] current_stage = "page_ui" -> "flow_connections"
      [] current_stage = "flow_connections" -> "feature_specific"
      [] current_stage = "feature_specific" -> "optimization"
      [] current_stage = "debugging" -> "optimization"
      [] current_stage = "optimization" -> None
      [] OTHER -> None

\* _generate_fallback_prompt.  tool_profiles.get(tool, default) evaluates the default
\* profile before the lookup, so the ToolProfile constructor runs on every call.
BasicGenerateFallbackPrompt(reg, req) ==
    IF ~BasicToolProfileOK THEN Raised("generate", req, "TypeError")
    ELSE LET tool_profile == IF req.tool \in DOMAIN reg THEN reg[req.tool]
                             ELSE BasicDefaultProfile(req.tool)
         IN  [NoResult EXCEPT
                !.op = "generate", !.outcome = "returned", !.request = req,
                !.prompt = [parts |->
                    <<"# ", Title(req.task_type), " - ", req.project_info.name,
                      "**Tool:** ", tool_profile.tool_name,
                      "**Stage:** ", Unders(Title(req.stage)),
                      "## Project Overview", req.project_info.description,
                      "**Technology Stack:** ">> \o req.project_info.tech_stack \o
                    <<"**Target Audience:** ", req.project_info.target_audience,
                      "## Task Description", req.description,
                      "## Requirements", "### Technical Requirements">>
                      \o Bullets(req.technical_requirements) \o
                    <<"### UI/UX Requirements">> \o Bullets(req.ui_requirements) \o
                    <<"### Constraints">> \o Bullets(req.constraints) \o
                    <<"## Implementation Guidelines", "## Success Criteria",
                      "Please implement this using ", tool_profile.tool_name,
                      tool_profile.tone, tool_profile.format>>,
                    context |-> <<>>],
                !.confidence = 4, !.sources = <<>>, !.tone = tool_profile.tone,
                !.fallback = TRUE, !.next_stage = BasicSuggestNextStage(req.stage)]

\* generate_prompt for one choice of the retrieved context.
BasicGeneratePrompt(reg, req, context_docs) ==
    IF req.tool \notin DOMAIN reg THEN Raised("generate", req, "ValueError")
    ELSE IF req.template # "ok"
    THEN [BasicGenerateFallbackPrompt(reg, req) EXCEPT
            !.queried = TRUE, !.retrieved = context_docs]
    ELSE [NoResult EXCEPT
            !.op = "generate", !.outcome = "returned", !.request = req,
            !.queried = TRUE, !.retrieved = context_docs,
            !.prompt = [parts |-> <<"template", "stage_", req.stage, ".md", "DOCS">>,
                        context |-> context_docs],
            !.confidence = BasicCalculateConfidenceScore(context_docs, req, reg[req.tool]),
            !.sources = context_docs, !.tone = reg[req.tool].tone,
            !.next_stage = BasicSuggestNextStage(req.stage)]

BasicRequests ==
    Requests(RequestEnumTools, PromptStage, {"App Development", "ui_design"}, {<<>>},
             {DefaultProject}, {TRUE}, BOOLEAN, {"ok", "missing", "render_raises"})

BasicGenerate ==
    /\ kind = "basic" /\ phase = "ready" /\ Idle
    /\ \E req \in BasicRequests :
         \E docs \in BasicGetRelevantContext(vector_stores, chroma, req.tool, req.query_fails) :
            result' = BasicGeneratePrompt(registry, req, docs)
    /\ UNCHANGED <<collections, inflight, env, manager, kind, phase, registry, vector_stores>>

\* A direct call of _calculate_confidence_score with a complete ToolProfile the
\* caller built and a list of n retrieved documents.
BasicCalculateConfidence ==
    /\ kind = "basic" /\ phase = "ready" /\ Idle
    /\ \E req \in Requests({"lovable"}, {"app_skeleton"}, {"App Development", "ui_design"},
                           {<<>>}, {DefaultProject}, {TRUE}, {FALSE}, {"ok"}),
          n \in 0..MaxChunks :
         LET docs == SetToSeq(Chunks([EmptyIndex EXCEPT !["lovable"] = n]))
         IN  result' = [NoResult EXCEPT
                          !.op = "confidence", !.outcome = "returned", !.request = req,
                          !.retrieved = docs,
                          !.confidence = BasicCalculateConfidenceScore(
                                             docs, req, BasicDefaultProfile(req.tool))]
    /\ UNCHANGED <<collections, inflight, env, manager, kind, phase, registry, vector_stores>>

\* A direct call of _suggest_next_stage: for any stage, or for the stage the
\* previous call suggested (the caller follows the suggestions); walk lists the
\* stages passed in so far.
BasicSuggestNext ==
    /\ kind = "basic" /\ phase = "ready"
    /\ \/ /\ Idle
          /\ \E stage \in PromptStage :
                result' = [NoResult EXCEPT
                             !.op = "next_stage", !.outcome = "returned",
                             !.request = [NoRequest EXCEPT !.stage = stage],
                             !.next_stage = BasicSuggestNextStage(stage),
                             !.walk = <<stage>>]
       \/ /\ result.op = "next_stage" /\ result.next_stage # None
          /\ result' = [result EXCEPT
                          !.request = [NoRequest EXCEPT !.stage = result.next_stage],
                          !.next_stage = BasicSuggestNextStage(result.next_stage),
                          !.walk = Append(result.walk, result.next_stage)]
    /\ UNCHANGED <<collections, inflight, env, manager, kind, phase, registry, vector_stores>>

\* A direct call of get_relevant_context for a tool.
BasicRetrieve ==
    /\ kind = "basic" /\ phase = "ready" /\ Idle
    /\ \E req \in RetrievalRequests(RequestEnumTools) :
         \E docs \in BasicGetRelevantContext(vector_stores, chroma, req.tool, req.query_fails) :
            result' = [NoResult EXCEPT
                         !.op = "retrieve", !.outcome = "returned", !.request = req,
                         !.queried = TRUE, !.retrieved = docs]
    /\ UNCHANGED <<collections, inflight, env, manager, kind, phase, registry, vector_stores>>

\* ============================================== EnhancedMultiToolGenerator
\* _load_tool_profiles: the two built-in profiles, keyed by SupportedTool value.
EnhancedLoadToolProfiles ==
    [t \in {"lovable", "bolt"} |->
        IF t = "lovable"
        THEN Profile("Lovable.dev", "structured_sections", "expert_casual", "C.L.E.A.R",
                     {"react_development", "ui_scaffolding", "supabase_integration",
                      "component_optimization", "responsive_design"},
                     {"structured", "conversational"}, "lovable")
        ELSE Profile("Bolt.new", "enhanced_prompts", "technical_precise", "",
                     {"rapid_prototyping", "web_applications", "javascript_projects",
                      "iterative_development", "code_refinement"},
                     {"structured"}, "bolt")]

\* __init__: the persistent client creates its directory; the profiles are built.
EnhancedConstruct ==
    /\ kind = "enhanced" /\ phase = "new"
    /\ IF DataclassInitOK(ToolProfileFields, EnhancedProfileArgs)
       THEN /\ phase' = "ready"
            /\ registry' = EnhancedLoadToolProfiles
            /\ result' = [NoResult EXCEPT !.op = "construct", !.outcome = "returned"]
       ELSE /\ phase' = "failed"
            /\ registry' = registry
            /\ result' = Raised("construct", NoRequest, "TypeError")
    /\ chromaExists' = TRUE
    /\ vector_stores' = {SingleStore}
    /\ UNCHANGED <<collections, inflight, configDir, configFiles, docsOnDisk, chroma, yamlStrategies, manager, kind>>

\* _determine_optimal_strategy
EnhancedDetermineOptimalStrategy(context) ==
    IF context.stage = "app_skeleton" THEN "structured"
    ELSE IF Len(context.technical_requirements) > 5 THEN "structured"
    ELSE IF context.stage \in {"debugging", "optimization"} THEN "conversational"
    ELSE "conversational"

\* _generate_lovable_prompt
EnhancedGenerateLovablePrompt(context) ==
    IF context.stage = "app_skeleton"
    THEN <<"Context: You are building a ", context.project_name,
           " using Lovable with React, TypeScript, and Supabase.",
           "Task: ", context.description, "Guidelines:", "Technical Requirements:">>
           \o Bullets(context.technical_requirements) \o
         <<"UI Requirements:">> \o Bullets(context.ui_requirements) \o
         <<"Constraints:">> \o Bullets(context.constraints) \o
         <<"Before starting, please confirm you understand the project requirements">>
    ELSE <<"Let's ", Unders(Lower(context.task_type)), " for the ", context.project_name,
           " project.", context.description, "Requirements:">>
           \o Bullets(context.technical_requirements \o context.ui_requirements) \o
         <<"Please ensure the implementation maintains consistency">>

\* _generate_bolt_prompt
EnhancedGenerateBoltPrompt(context) ==
    <<"Create a ", Unders(Lower(context.task_type)), " for ", context.project_name, ".",
      "Core Functionality:", context.description, "Technical Specifications:">>
      \o Bullets(context.technical_requirements) \o
    <<"UI/UX Requirements:">> \o Bullets(context.ui_requirements) \o
    <<"Constraints:">> \o Bullets(context.constraints) \o
    (IF context.stage = "app_skeleton" THEN <<"Architecture Requirements:">> ELSE <<>>)

\* _generate_generic_prompt
EnhancedGenerateGenericPrompt(context) ==
    <<"Project: ", context.project_name, "Task: ", Title(Unders(context.task_type)),
      "Description: ", context.description, "Technical Requirements:">>
      \o Bullets(context.technical_requirements) \o
    <<"UI Requirements:">> \o Bullets(context.ui_requirements) \o
    <<"Constraints:">> \o Bullets(context.constraints) \o
    <<"Please implement this feature following best practices for ", context.tool, ".">>

\* _generate_base_prompt: dispatch on the profile's tool_name.
EnhancedGenerateBasePrompt(context, profile) ==
    IF profile.tool_name = "Lovable.dev" THEN EnhancedGenerateLovablePrompt(context)
    ELSE IF profile.tool_name = "Bolt.new" THEN EnhancedGenerateBoltPrompt(context)
    ELSE EnhancedGenerateGenericPrompt(context)

\* _apply_tool_optimizations
EnhancedApplyToolOptimizations(base_prompt, context, profile) ==
    IF profile.tool_name = "Lovable.dev"
    THEN base_prompt
         \o (IF context.stage = "debugging"
             THEN <<"Please use Chat mode to discuss the issue before implementing changes.">>
             ELSE <<>>)
         \o (IF "responsive" \in Range(context.ui_requirements)
             THEN <<"Ensure mobile-first responsive design using Tailwind breakpoints">>
             ELSE <<>>)
    ELSE IF profile.tool_name = "Bolt.new"
    THEN <<"[Note: Consider using the Enhance Prompt feature for this request]">>
         \o base_prompt
         \o (IF Len(context.technical_requirements) > 3
             THEN <<"Suggestion: Break this into smaller, incremental changes">>
             ELSE <<>>)
    ELSE base_prompt

\* Variant: the task-type bonus weighs 0.2, as it does in the basic generator.
EnhancedScoreHeavyTaskBonus(context, documents, profile) ==
    Min(5 + (IF documents # <<>> THEN 2 ELSE 0)
          + (IF context.technical_requirements # <<>> /\ context.ui_requirements # <<>>
             THEN 2 ELSE 0)
          + (IF context.task_type \in profile.preferred_use_cases THEN 2 ELSE 0),
        10)

\* _calculate_confidence_score, in tenths; documents is query_results['documents'][0].
EnhancedCalculateConfidenceScore(context, documents, profile) ==
    Min(5 + (IF documents # <<>> THEN 2 ELSE 0)
          + (IF context.technical_requirements # <<>> /\ context.ui_requirements # <<>>
             THEN 2 ELSE 0)
          + (IF context.task_type \in profile.preferred_use_cases THEN 1 ELSE 0),
        10)

\* Variant: the table skips page_ui.
EnhancedSuggestNextStageSkip(stage) ==
    CASE stage = "app_skeleton" -> "flow_connections"
      [] stage = "page_ui" -> "flow_connections"
      [] stage = "flow_connections" -> "feature_specific"
      [] stage = "feature_specific" -> "optimization"
      [] OTHER -> None

\* _suggest_next_stage: stage_progression.get(stage)
EnhancedSuggestNextStage(stage) ==
    CASE stage = "app_skeleton" -> "page_ui"
      [] stage = "page_ui" -> "flow_connections"
      [] stage = "flow_connections" -> "feature_specific"
      [] stage = "feature_specific" -> "optimization"
      [] OTHER -> None

\* The results generate_enhanced_prompt(context) may give: ValueError for a tool
\* without a profile; whatever the collection query raises, unhandled; else the
\* PromptResult for each possible answer of the query on the profile's collection.
EnhancedGeneratePrompt(reg, idx, context) ==
    IF context.tool \notin DOMAIN reg THEN {Raised("generate", context, "ValueError")}
    ELSE IF context.query_fails
    THEN {[Raised("generate", context, "ProviderUnavailable") EXCEPT !.queried = TRUE]}
    ELSE LET profile == reg[context.tool]
             base == EnhancedGenerateBasePrompt(context, profile)
         IN  {[NoResult EXCEPT
                 !.op = "generate", !.outcome = "returned", !.request = context,
                 !.queried = TRUE, !.retrieved = documents,
                 !.prompt = [parts |-> IF context.include_optimizations
                                       THEN EnhancedApplyToolOptimizations(base, context, profile)
                                       ELSE base,
                             context |-> <<>>],
                 !.confidence = EnhancedCalculateConfidenceScore(context, documents, profile),
                 !.sources = documents, !.tone = profile.tone,
                 !.next_stage = EnhancedSuggestNextStage(context.stage),
                 !.applied_strategy = EnhancedDetermineOptimalStrategy(context)]
              : documents \in SimilaritySearch(idx, 5, profile.vector_namespace)}

\* A direct call of _suggest_next_stage(context): for any stage, or for the stage
\* the previous call suggested.
EnhancedSuggestNext ==
    /\ kind = "enhanced" /\ phase = "ready"
    /\ \/ /\ Idle
          /\ \E stage \in PromptStage :
                result' = [NoResult EXCEPT
                             !.op = "next_stage", !.outcome = "returned",
                             !.request = [NoRequest EXCEPT !.stage = stage],
                             !.next_stage = EnhancedSuggestNextStage(stage),
                             !.walk = <<stage>>]
       \/ /\ result.op = "next_stage" /\ result.next_stage # None
          /\ result' = [result EXCEPT
                          !.request = [NoRequest EXCEPT !.stage = result.next_stage],
                          !.next_stage = EnhancedSuggestNextStage(result.next_stage),
                          !.walk = Append(result.walk, result.next_stage)]
    /\ UNCHANGED <<collections, inflight, env, manager, kind, phase, registry, vector_stores>>

EnhancedRequests ==
    Requests(RequestEnumTools, PromptStage, {"react_development", "ui_design"}, ReqLists,
             {DefaultProject}, BOOLEAN, BOOLEAN, {"ok"})

\* chroma_client.get_or_create_collection(name=tool_profile.vector_namespace), which
\* generate_enhanced_prompt calls once it has found the profile: the collections
\* of the client afterwards.
EnhancedGetOrCreateCollection(cols, reg, tool) ==
    IF tool \in DOMAIN reg THEN cols \cup {reg[tool].vector_namespace} ELSE cols

EnhancedGenerate ==
    /\ kind = "enhanced" /\ phase = "ready" /\ Idle
    /\ \E context \in EnhancedRequests :
         /\ result' \in EnhancedGeneratePrompt(registry, chroma, context)
         /\ collections' = EnhancedGetOrCreateCollection(collections, registry, context.tool)
    /\ UNCHANGED <<inflight, env, manager, kind, phase, registry, vector_stores>>

\* ------------------------------------------------ app.py: POST /generate
\* UIUX_PROMPT_TEMPLATE.format(...), with the form fields the model follows.
AppUiuxPrompt(app_name, app_idea, selected_tool) ==
    <<"UI/UX Page-by-Page Design Plan for Cross-Device App",
      "- **App Name**: ", app_name, "- **App Idea**: ", app_idea,
      "- **Selected Tool**: ", Title(Unders(selected_tool))>>

\* The task context the route builds for the generator.
AppTaskContext(app_name, app_idea, selected_tool, fails) ==
    [NoRequest EXCEPT
        !.tool = selected_tool, !.stage = "page_ui", !.task_type = "ui_design",
        !.project_name = app_name, !.description = app_idea,
        !.include_optimizations = TRUE, !.query_fails = fails]

\* generate_prompt(): the JSON responses it may send.
AppGeneratePrompt(reg, idx, app_name, app_idea, selected_tool, fails) ==
    LET context == AppTaskContext(app_name, app_idea, selected_tool, fails)
        uiux == AppUiuxPrompt(app_name, app_idea, selected_tool)
        \* SupportedTool(selected_tool) raises ValueError for a string that is no member.
        inner == IF selected_tool \notin SupportedTool
                 THEN {Raised("generate", context, "ValueError")}
                 ELSE EnhancedGeneratePrompt(reg, idx, context)
    IN  IF app_name = "" \/ app_idea = ""
        THEN {[NoResult EXCEPT !.op = "app_generate", !.outcome = "error_response",
                               !.error = "App Name and App Idea are required fields.",
                               !.request = context]}
        ELSE {IF r.outcome = "returned"
              THEN [r EXCEPT
                      !.op = "app_generate",
                      !.prompt = [parts |->
                          <<"## Tool-Specific Context for ", Title(Unders(selected_tool))>>
                          \o r.prompt.parts \o uiux \o
                          <<"Generated with confidence score: ", "Applied strategy: ",
                            r.applied_strategy>>,
                          context |-> <<>>]]
              ELSE [NoResult EXCEPT
                      !.op = "app_generate", !.outcome = "returned", !.request = context,
                      !.queried = r.queried,
                      !.prompt = [parts |-> uiux, context |-> <<>>]]
              : r \in inner}

AppGenerate ==
    /\ kind = "enhanced" /\ phase = "ready" /\ Idle
    /\ \E app_name \in ProjectNames \cup {""}, app_idea \in Descriptions \cup {""},
          selected_tool \in RequestToolNames, fails \in BOOLEAN :
         /\ result' \in AppGeneratePrompt(registry, chroma, app_name, app_idea,
                                          selected_tool, fails)
         /\ collections' = IF app_name = "" \/ app_idea = ""
                            THEN collections
                            ELSE EnhancedGetOrCreateCollection(collections, registry,
                                                               selected_tool)
    /\ UNCHANGED <<inflight, env, manager, kind, phase, registry, vector_stores>>

\* ------------------------------- app.py served by threads (threaded=True)
\* A thread that serves no request.
IdleThread == [pc |-> "idle", tool |-> None, response |-> NoResult]

\* The module-level `generator = EnhancedMultiToolGenerator()` of app.py.
AppServerConstruct ==
    /\ kind = "app_server" /\ phase = "new"
    /\ IF DataclassInitOK(ToolProfileFields, EnhancedProfileArgs)
       THEN /\ phase' = "ready"
            /\ registry' = EnhancedLoadToolProfiles
            /\ result' = [NoResult EXCEPT !.op = "construct", !.outcome = "returned"]
       ELSE /\ phase' = "failed"
            /\ registry' = registry
            /\ result' = Raised("construct", NoRequest, "TypeError")
    /\ chromaExists' = TRUE
    /\ vector_stores' = {SingleStore}
    /\ UNCHANGED <<collections, inflight, configDir, configFiles, docsOnDisk, chroma,
                   yamlStrategies, manager, kind>>

\* What a thread leaves alone whatever it does.
ThreadFrame == UNCHANGED <<env, manager, kind, phase, vector_stores, result, registry>>

\* The response of POST /generate for the tool thread t was asked for, were it
\* served with the registry and the index as they are.
ThreadResponses(reg, idx, tool) ==
    AppGeneratePrompt(reg, idx, "TaskMaster Pro", "Implement secure login", tool, FALSE)

\* A thread takes a POST /generate request and reads the form.
ThreadReceive(t) ==
    /\ kind = "app_server" /\ phase = "ready"
    /\ inflight[t].pc = "idle"
    /\ \E selected_tool \in RequestToolNames :
         inflight' = [inflight EXCEPT ![t] = [IdleThread EXCEPT !.pc = "profile",
                                                               !.tool = selected_tool]]
    /\ UNCHANGED collections
    /\ ThreadFrame

\* SupportedTool(selected_tool) and self.tool_profiles.get(...): without a profile
\* the ValueError is caught by the route, which answers with its own prompt.
ThreadGetProfile(t) ==
    /\ kind = "app_server"
    /\ inflight[t].pc = "profile"
    /\ IF inflight[t].tool \in SupportedTool /\ inflight[t].tool \in DOMAIN registry
       THEN inflight' = [inflight EXCEPT ![t].pc = "collection"]
       ELSE \E r \in ThreadResponses(registry, chroma, inflight[t].tool) :
               inflight' = [inflight EXCEPT ![t].pc = "done", ![t].response = r]
    /\ UNCHANGED collections
    /\ ThreadFrame

\* self.chroma_client.get_or_create_collection(name=tool_profile.vector_namespace)
ThreadGetCollection(t) ==
    /\ kind = "app_server"
    /\ inflight[t].pc = "collection"
    /\ collections' = EnhancedGetOrCreateCollection(collections, registry, inflight[t].tool)
    /\ inflight' = [inflight EXCEPT ![t].pc = "query"]
    /\ ThreadFrame

\* collection.query(...) and the rest of generate_enhanced_prompt and of the route.
ThreadQuery(t) ==
    /\ kind = "app_server"
    /\ inflight[t].pc = "query"
    /\ \E r \in ThreadResponses(registry, chroma, inflight[t].tool) :
         inflight' = [inflight EXCEPT ![t].pc = "done", ![t].response = r]
    /\ UNCHANGED collections
    /\ ThreadFrame

\* The thread sends the JSON response and is free for the next request.
ThreadRespond(t) ==
    /\ kind = "app_server"
    /\ inflight[t].pc = "done"
    /\ inflight' = [inflight EXCEPT ![t] = IdleThread]
    /\ UNCHANGED collections
    /\ ThreadFrame

\* ============================================ tool configuration files
\* What yaml.safe_load gives for config/tools/<tool>.yaml: the two files that
\* GeminiToolSpecificPromptGenerator._create_default_tools_config writes, with
\* prompting_strategies either as written there (flags) or as a mapping of
\* strategies with a template each.
YamlConfig(tool, values) ==
    [(IF tool = "lovable"
      THEN Profile("Lovable", "structured", "friendly_professional", "React/Next.js",
                   {"web_apps", "prototypes", "mvp"},
                   IF values = "flags" THEN {"step_by_step", "context_first", "examples"}
                   ELSE {"structured", "conversational"}, tool)
      ELSE Profile("Cursor", "conversational", "technical", "Multi-language IDE",
                   {"code_editing", "refactoring", "debugging"},
                   IF values = "flags" THEN {"context_aware", "incremental", "file_aware"}
                   ELSE {"incremental"}, tool))
     EXCEPT !.strategy_values = values]

\* _load_all_tools_config: one ToolConfig per *.yaml of the directory.
LoadAllToolsConfig(files, values) == [t \in files |-> YamlConfig(t, values)]

\* ============================================ ToolSpecificPromptGenerator
\* _create_vector_store: the documents data/*_docs/*.md yield, each with its
\* folder's tool as metadata; ValueError when there is none.
ToolSpecificCreateOK(docs) == \E t \in DocTools : docs[t] > 0

\* __init__: load the configs, then load the persisted index or build it.
ToolSpecificConstruct ==
    /\ kind = "tool_specific" /\ phase = "new"
    /\ registry' = LoadAllToolsConfig(configFiles, yamlStrategies)
    /\ IF chromaExists
       THEN /\ vector_stores' = {SingleStore}
            /\ phase' = "ready"
            /\ result' = [NoResult EXCEPT !.op = "construct", !.outcome = "returned"]
            /\ UNCHANGED <<chromaExists, chroma>>
       ELSE IF ToolSpecificCreateOK(docsOnDisk)
       THEN /\ vector_stores' = {SingleStore}
            /\ phase' = "ready"
            /\ chromaExists' = TRUE
            /\ chroma' = docsOnDisk
            /\ result' = [NoResult EXCEPT !.op = "construct", !.outcome = "returned"]
       ELSE /\ vector_stores' = {}
            /\ phase' = "failed"
            /\ result' = Raised("construct", NoRequest, "ValueError")
            /\ UNCHANGED <<chromaExists, chroma>>
    /\ UNCHANGED <<collections, inflight, configDir, configFiles, docsOnDisk, yamlStrategies, manager, kind>>

\* The metadata filter get_relevant_context passes to similarity_search.
ToolSpecificFilter(tool) == tool

\* get_relevant_context(tool, ...): the lists it may return.
ToolSpecificGetRelevantContext(stores, idx, tool, fails) ==
    IF SingleStore \notin stores THEN {<<>>}
    ELSE IF fails THEN {<<>>}
    ELSE SimilaritySearch(idx, 5, ToolSpecificFilter(tool))

\* _select_strategy: the strategy it picks, None for the empty mapping {}, and
\* "True" for a boolean found as a value of the strategies mapping.
ToolSpecificSelectStrategy(config, stage) ==
    LET Get(key, default) ==
            IF key \in config.strategies
            THEN (IF config.strategy_values = "flags" THEN "True" ELSE key)
            ELSE default
    IN  IF stage \in {"planning", "architecture"}
        THEN Get("structured", Get("enhanced", None))
        ELSE IF stage \in {"implementation", "development"}
        THEN Get("incremental", Get("conversational", None))
        ELSE IF stage \in {"testing", "debugging"}
        THEN Get("meta", Get("structured", None))
        ELSE IF config.strategies = {} THEN None
        ELSE IF config.strategy_values = "flags" THEN "True"
        ELSE CHOOSE k \in config.strategies : TRUE

\* context_content of generate_stage_prompt: the documents joined into it, the
\* first three; the string is empty exactly when there is none.
ToolSpecificContextContent(context_docs) == Take(context_docs, 3)

\* Variant: the documentation section is rendered unconditionally.
ToolSpecificAlwaysContext(context_content) == TRUE

\* The test _build_stage_prompt puts before the documentation section.
ToolSpecificHasContext(context_content) == context_content # <<>>

\* _build_stage_prompt
ToolSpecificBuildStagePrompt(config, strategy, task_context, project_info, context_content) ==
    [parts |->
        <<"# ", config.tool_name, " - ", Title(task_context.stage), " Stage",
          "## Project: ", project_info.name,
          "**Tool:** ", config.tool_name, "**Stage:** ", Title(task_context.stage),
          "**Task Type:** ", task_context.task_type, "**Framework:** ", config.framework,
          "## Project Context", "**Description:** ", project_info.description,
          "**Tech Stack:** ">> \o project_info.tech_stack \o
        <<"**Target Audience:** ", project_info.target_audience,
          "## Task Details", "**Description:** ", task_context.description>> \o
        (IF task_context.technical_requirements # <<>>
         THEN <<"**Technical Requirements:**">> \o Bullets(task_context.technical_requirements)
         ELSE <<>>) \o
        (IF task_context.ui_requirements # <<>>
         THEN <<"**UI/UX Requirements:**">> \o Bullets(task_context.ui_requirements)
         ELSE <<>>) \o
        (IF task_context.constraints # <<>>
         THEN <<"**Constraints:**">> \o Bullets(task_context.constraints)
         ELSE <<>>) \o
        (IF ToolSpecificHasContext(context_content)
         THEN <<"## Relevant Documentation", "DOCS">> ELSE <<>>) \o
        <<"## ", config.tool_name, " Guidelines", "**Tone:** ", config.tone,
          "**Format:** ", config.format>> \o
        (IF strategy # None
         THEN <<"## Implementation Strategy", "**Strategy:** ", strategy>> ELSE <<>>) \o
        <<"## ", Title(task_context.stage), " Stage Instructions",
          "## Action Required", "Please ", task_context.task_type, " for the ",
          task_context.stage, " stage of ", project_info.name, " using ", config.tool_name>>,
     context |-> IF ToolSpecificHasContext(context_content) THEN context_content ELSE <<>>]

\* generate_stage_prompt for one answer of the retrieval.  An unknown tool gives
\* the string "Tool '<tool>' not supported"; `'template' in strategy` raises
\* TypeError when the strategy is a boolean.
ToolSpecificGenerateStagePrompt(reg, task_context, context_docs) ==
    IF task_context.tool \notin DOMAIN reg
    THEN [NoResult EXCEPT
            !.op = "generate", !.outcome = "returned", !.error = "not supported",
            !.request = task_context,
            !.prompt = [parts |-> <<"Tool '", task_context.tool, "' not supported">>,
                        context |-> <<>>]]
    ELSE LET config == reg[task_context.tool]
             strategy == ToolSpecificSelectStrategy(config, task_context.stage)
         IN  IF strategy = "True"
             THEN [Raised("generate", task_context, "TypeError") EXCEPT
                     !.queried = TRUE, !.retrieved = context_docs]
             ELSE [NoResult EXCEPT
                     !.op = "generate", !.outcome = "returned", !.request = task_context,
                     !.queried = TRUE, !.retrieved = context_docs,
                     !.prompt = ToolSpecificBuildStagePrompt(
                                    config, strategy, task_context, task_context.project_info,
                                    ToolSpecificContextContent(context_docs)),
                     !.tone = config.tone]

ToolSpecificRequests ==
    Requests(RequestToolNames, StageStrings, {"ui_design"}, {<<>>}, {DefaultProject},
             {TRUE}, BOOLEAN, {"ok"})

ToolSpecificGenerate ==
    /\ kind = "tool_specific" /\ phase = "ready" /\ Idle
    /\ \E req \in ToolSpecificRequests :
         \E docs \in ToolSpecificGetRelevantContext(vector_stores, chroma, req.tool,
                                                    req.query_fails) :
            result' = ToolSpecificGenerateStagePrompt(registry, req, docs)
    /\ UNCHANGED <<collections, inflight, env, manager, kind, phase, registry, vector_stores>>

\* A direct call of get_relevant_context for any tool name.
ToolSpecificRetrieve ==
    /\ kind = "tool_specific" /\ phase = "ready" /\ Idle
    /\ \E req \in RetrievalRequests(RequestToolNames) :
         \E docs \in ToolSpecificGetRelevantContext(vector_stores, chroma, req.tool,
                                                    req.query_fails) :
            result' = [NoResult EXCEPT
                         !.op = "retrieve", !.outcome = "returned", !.request = req,
                         !.queried = TRUE, !.retrieved = docs]
    /\ UNCHANGED <<collections, inflight, env, manager, kind, phase, registry, vector_stores>>

\* ====================================== GeminiToolSpecificPromptGenerator
\* _load_documents: DirectoryLoader(folder, glob="**/*.{txt,md,json}").  The
\* loader hands the pattern to pathlib, which knows no brace alternatives, so the
\* pattern matches only a file literally named "*.{txt,md,json}": no document is
\* loaded from any folder.
GeminiLoadDocuments(docs) == EmptyIndex

\* _get_default_tool_config(tool_name)
GeminiDefaultToolConfig(tool_name) ==
    [Profile(Title(tool_name), "structured", "professional", "General development",
             {"general_development"}, {"step_by_step"}, tool_name)
     EXCEPT !.strategy_values = "flags"]

\* __init__: _load_all_tools_config creates config/tools with the two default files
\* when the directory is missing; _initialize_vector_store loads the persisted
\* index or creates one from _load_documents (an empty store without documents).
GeminiConstruct ==
    /\ kind = "gemini_tool" /\ phase = "new"
    /\ configDir' = TRUE
    /\ configFiles' = IF configDir THEN configFiles ELSE {"lovable", "cursor"}
    /\ yamlStrategies' = IF configDir THEN yamlStrategies ELSE "flags"
    /\ registry' = LoadAllToolsConfig(configFiles', yamlStrategies')
    /\ vector_stores' = {SingleStore}
    /\ chromaExists' = TRUE
    /\ chroma' = IF chromaExists THEN chroma ELSE GeminiLoadDocuments(docsOnDisk)
    /\ phase' = "ready"
    /\ result' = [NoResult EXCEPT !.op = "construct", !.outcome = "returned"]
    /\ UNCHANGED <<collections, inflight, docsOnDisk, manager, kind>>

\* Variant: the query is never filtered by tool.
GeminiNoFilter(available_tools, tool) == None

\* The metadata filter get_relevant_context passes to similarity_search:
\* {"tool": tool} if tool in self.available_tools else None.
GeminiFilter(available_tools, tool) == IF tool \in available_tools THEN tool ELSE None

\* get_relevant_context(query, tool, k): the lists it may return.
GeminiGetRelevantContext(stores, idx, available_tools, tool, k, fails) ==
    IF SingleStore \notin stores THEN {<<>>}
    ELSE IF fails THEN {<<>>}
    ELSE SimilaritySearch(idx, k, GeminiFilter(available_tools, tool))

\* The test generate_prompt puts before the documentation section.
GeminiHasContext(relevant_context) == relevant_context # <<>>

\* _build_strategy_section: the strategy lines (flags that are set).
GeminiStrategyLines(tool_config) ==
    LET on(key) == tool_config.strategy_values = "flags" /\ key \in tool_config.strategies
        lines == (IF on("step_by_step") THEN <<"- Break down the task">> ELSE <<>>) \o
                 (IF on("context_first") THEN <<"- Provide full context">> ELSE <<>>) \o
                 (IF on("examples") THEN <<"- Include relevant examples">> ELSE <<>>) \o
                 (IF on("incremental") THEN <<"- Focus on incremental improvements">> ELSE <<>>)
    IN  IF lines # <<>> THEN lines ELSE <<"- Follow standard development practices">>

\* generate_prompt(project_info, task_context) for one answer of the retrieval.
GeminiGeneratePrompt(reg, task_context, relevant_context) ==
    LET tool_config == IF task_context.tool \in DOMAIN reg THEN reg[task_context.tool]
                       ELSE GeminiDefaultToolConfig(task_context.tool)
        project_info == task_context.project_info
    IN  [NoResult EXCEPT
           !.op = "generate", !.outcome = "returned", !.request = task_context,
           !.queried = TRUE, !.retrieved = relevant_context,
           !.prompt = [parts |->
               <<"# ", tool_config.tool_name, " Prompt Generator",
                 "**Tool**: ", tool_config.tool_name,
                 "**Framework**: ", tool_config.framework,
                 "**Task Type**: ", task_context.task_type,
                 "**Stage**: ", task_context.stage,
                 "## Project Information", "**Name**: ", project_info.name,
                 "**Description**: ", project_info.description, "**Tech Stack**: ">> \o
               (IF project_info.tech_stack # <<>> THEN project_info.tech_stack
                ELSE <<"Not specified">>) \o
               <<"**Target Audience**: ", project_info.target_audience,
                 "**Requirements**:">> \o Bullets(project_info.requirements) \o
               <<"## Task Context", "**Description**: ", task_context.description,
                 "**Technical Requirements**:">>
                 \o Bullets(task_context.technical_requirements) \o
               <<"**UI Requirements**:">> \o Bullets(task_context.ui_requirements) \o
               <<"**Constraints**:">> \o Bullets(task_context.constraints) \o
               (IF GeminiHasContext(relevant_context)
                THEN <<"## Relevant Documentation", "DOCS">> ELSE <<>>) \o
               <<"## Implementation Strategy">> \o GeminiStrategyLines(tool_config) \o
               <<"**Tone**: ", tool_config.tone, "**Supported Components**: ",
                 "## Expected Output", "Please provide a ", tool_config.format,
                 "Format your response in a clear, ", tool_config.tone,
                 " tone suitable for ", tool_config.tool_name>>,
               context |-> IF GeminiHasContext(relevant_context) THEN relevant_context
                           ELSE <<>>],
           !.tone = tool_config.tone]

GeminiRequests ==
    Requests(RequestToolNames, StageStrings, {"ui_design"}, {<<>>}, ProjectInfos,
             {TRUE}, BOOLEAN, {"ok"})

GeminiGenerate ==
    /\ kind = "gemini_tool" /\ phase = "ready" /\ Idle
    /\ \E req \in GeminiRequests :
         \E docs \in GeminiGetRelevantContext(vector_stores, chroma, DOMAIN registry,
                                              req.tool, 3, req.query_fails) :
            result' = GeminiGeneratePrompt(registry, req, docs)
    /\ UNCHANGED <<collections, inflight, env, manager, kind, phase, registry, vector_stores>>

\* A direct call of get_relevant_context(query, tool) with the default k = 5.
GeminiRetrieve ==
    /\ kind = "gemini_tool" /\ phase = "ready" /\ Idle
    /\ \E req \in RetrievalRequests(RequestToolNames) :
         \E docs \in GeminiGetRelevantContext(vector_stores, chroma, DOMAIN registry,
                                              req.tool, 5, req.query_fails) :
            result' = [NoResult EXCEPT
                         !.op = "retrieve", !.outcome = "returned", !.request = req,
                         !.queried = TRUE, !.retrieved = docs]
    /\ UNCHANGED <<collections, inflight, env, manager, kind, phase, registry, vector_stores>>

\* =========================================== LovablePromptGeneratorGemini
\* _get_default_config / the lovable.yaml profile, with the fields read here.
LovableToolProfile ==
    Profile("Lovable.dev", "markdown", "official yet casual", "",
            {"project kickoff", "UI scaffolding", "responsiveness", "API integrations"},
            {}, "lovable")

\* __init__: the profile (file or default), then the persisted index is loaded, or
\* created from data/lovable_docs (an empty store when the folder is missing).
LovableConstruct ==
    /\ kind = "lovable_gemini" /\ phase = "new"
    /\ registry' = [t \in {"lovable"} |-> LovableToolProfile]
    /\ vector_stores' = {SingleStore}
    /\ chromaExists' = TRUE
    /\ chroma' = IF chromaExists THEN chroma
                 ELSE [EmptyIndex EXCEPT !["lovable"] = docsOnDisk["lovable"]]
    /\ phase' = "ready"
    /\ result' = [NoResult EXCEPT !.op = "construct", !.outcome = "returned"]
    /\ UNCHANGED <<collections, inflight, configDir, configFiles, docsOnDisk, yamlStrategies, manager, kind>>

\* _generate_fallback_prompt(task_context, project_info)
LovableGenerateFallbackPrompt(task_context, project_info) ==
    <<"# ", Title(task_context.task_type), " for ", project_info.name,
      "## Project Context", project_info.description,
      "**Technology Stack:** ">> \o project_info.tech_stack \o
    <<"## Task Description", task_context.description,
      "## Requirements", "### Technical Requirements">>
      \o Bullets(task_context.technical_requirements) \o
    <<"### UI Requirements">> \o Bullets(task_context.ui_requirements) \o
    <<"## Constraints">> \o Bullets(task_context.constraints) \o
    <<"## Expected Output">>

\* generate_prompt(task_context, project_info): the results it may give.  The
\* similarity search of get_relevant_context runs outside any try block; only the
\* template lookup and rendering are guarded.
LovableGeneratePrompt(stores, idx, task_context) ==
    IF SingleStore \in stores /\ task_context.query_fails
    THEN {[Raised("generate", task_context, "ProviderUnavailable") EXCEPT !.queried = TRUE]}
    ELSE {[NoResult EXCEPT
             !.op = "generate", !.outcome = "returned", !.request = task_context,
             !.queried = TRUE, !.retrieved = context_docs,
             !.prompt = IF task_context.template = "ok"
                        THEN [parts |-> <<"template", "lovable_task_template.md", "DOCS">>,
                              context |-> Take(context_docs, 3)]
                        ELSE [parts |-> LovableGenerateFallbackPrompt(
                                            task_context, task_context.project_info),
                              context |-> <<>>],
             !.fallback = (task_context.template # "ok"),
             !.tone = LovableToolProfile.tone]
          : context_docs \in IF SingleStore \in stores
                             THEN SimilaritySearch(idx, 5, None) ELSE {<<>>}}

LovableRequests ==
    Requests({"lovable"}, {None}, {"ui_design"}, ReqLists, {DefaultProject}, {TRUE},
             BOOLEAN, {"ok", "missing", "render_raises"})

LovableGenerate ==
    /\ kind = "lovable_gemini" /\ phase = "ready" /\ Idle
    /\ \E req \in LovableRequests :
         result' \in LovableGeneratePrompt(vector_stores, chroma, req)
    /\ UNCHANGED <<collections, inflight, env, manager, kind, phase, registry, vector_stores>>

\* ===================================================== the state machine
\* What the process may find on disk when it starts.  A persisted index that exists
\* was built from the documentation folders; the enhanced generator reads neither
\* configuration files nor folders, only its collections.
\* The documentation folders a process may start with.  The writers take their
\* chunks as arguments and the Gemini generator's index is changed by its
\* update_vector_store, so for these an empty and a filled data directory do.
InitialDocs(k) ==
    IF k \in {"gemini_tool", "db_script", "db_updater"}
    THEN {EmptyIndex, [t \in DocTools |-> 1]}
    ELSE IF k \in ScriptKinds THEN {EmptyIndex} ELSE Indexes

Init ==
    /\ kind \in Kinds
    /\ phase = "new"
    /\ registry = EmptyRegistry
    /\ vector_stores = {}
    /\ result = NoResult
    /\ docsOnDisk \in InitialDocs(kind)
    /\ chromaExists \in (IF kind \in ScriptKinds \ {"cli_gemini"} THEN {FALSE}
                         ELSE BOOLEAN)
    /\ chroma = IF chromaExists THEN docsOnDisk ELSE EmptyIndex
    /\ collections = IF kind \in {"enhanced", "app_server"}
                     THEN {t \in DocTools : chroma[t] > 0} ELSE {}
    /\ inflight = [t \in Threads |-> IdleThread]
    /\ manager \in (IF kind = "embedding_manager" THEN InitialManagers ELSE {NoManager})
    /\ IF kind \in {"tool_specific", "gemini_tool"}
       THEN /\ configDir \in BOOLEAN
            /\ configFiles \in (IF configDir THEN ConfigSets ELSE {{}})
            /\ yamlStrategies \in (IF configFiles = {} THEN {"flags"}
                                   ELSE {"flags", "templates"})
       ELSE /\ configDir = TRUE
            /\ configFiles \in (IF kind \in {"basic", "lovable_gemini"}
                                THEN {{}, {"lovable"}} ELSE {{}})
            /\ yamlStrategies = "flags"

\* ======================================================== scored retrieval
\* Relevance scores, in tenths, a search may attach to a result: below, at and
\* above the cutoff of the query script and the threshold of the basic generator.
Scores == {2, 3, 6, 7}

\* k of the query script's search and the cutoff it tests the best result against.
ScriptK == 3
ScriptCutoff == 3
\* k of the basic generator's search and its relevance threshold.
BasicK == 5
BasicThreshold == 6

Descending(xs) == \A i \in 1..(Len(xs) - 1) : xs[i] >= xs[i + 1]

\* similarity_search_with_relevance_scores(query, k) on a store of n chunks: the
\* scores of the k best chunks (all of them when there are fewer), best first.
ScoredSearch(n, k) ==
    {xs \in SeqsUpTo(Scores, Min(n, k)) : Len(xs) = Min(n, k) /\ Descending(xs)}

\* Variant: the script uses whatever the search returned.
QueryScriptUsesAll(results) == results

\* query_data_gemini.main: the results that go into the prompt as context; none
\* when the search found nothing or its best result scores below the cutoff.
QueryScriptContext(results) ==
    IF Len(results) = 0 \/ results[1] < ScriptCutoff THEN <<>> ELSE results

\* query_data_gemini.main: Chroma(persist_directory=...) opens the store, making an
\* empty one when the directory is missing, and the query is run on it.
QueryScriptMain ==
    /\ kind = "query_script" /\ Idle
    /\ \E results \in ScoredSearch(Cardinality(Chunks(chroma)), ScriptK) :
         result' = [NoResult EXCEPT
                      !.op = "query", !.outcome = "returned", !.queried = TRUE,
                      !.scores = results, !.used = QueryScriptContext(results)]
    /\ chromaExists' = TRUE
    /\ UNCHANGED <<collections, inflight, configDir, configFiles, docsOnDisk, chroma,
                   yamlStrategies, manager, kind, phase, registry, vector_stores>>

\* get_relevant_context of the basic generator, the filter on the search results:
\* [doc for doc, score in results if score > 0.6].
BasicRelevantDocs(results) == SelectSeq(results, LAMBDA score : score > BasicThreshold)

\* get_relevant_context on a generator that holds a store of n chunks for the tool
\* (a store the caller has set; the constructor leaves the generator without one).
BasicFilterContext ==
    /\ kind = "basic" /\ phase = "ready" /\ Idle
    /\ \E n \in 0..MaxChunks :
         \E results \in ScoredSearch(n, BasicK) :
            result' = [NoResult EXCEPT
                         !.op = "query", !.outcome = "returned", !.queried = TRUE,
                         !.scores = results, !.used = BasicRelevantDocs(results)]
    /\ UNCHANGED <<collections, inflight, env, manager, kind, phase, registry, vector_stores>>

\* ===================================================== chunk categories
\* File names of documents, as sequences of characters.
FileNames ==
    {<<"p", "r", "o", "m", "p", "t", "i", "n", "g", "_", "g", "u", "i", "d", "e", "l",
      "i", "n", "e", "s", ".", "m", "d">>,
     <<"u", "i", "_", "d", "e", "s", "i", "g", "n", ".", "m", "d">>,
     <<"a", "p", "i", "_", "i", "n", "t", "e", "g", "r", "a", "t", "i", "o", "n", ".",
      "m", "d">>,
     <<"d", "e", "b", "u", "g", "g", "i", "n", "g", ".", "m", "d">>,
     <<"p", "e", "r", "f", "o", "r", "m", "a", "n", "c", "e", ".", "m", "d">>,
     <<"s", "t", "y", "l", "e", "_", "g", "u", "i", "d", "e", ".", "m", "d">>,
     <<"P", "r", "o", "m", "p", "t", "i", "n", "g", "_", "T", "i", "p", "s", ".", "m",
      "d">>,
     <<"r", "e", "a", "d", "m", "e", ".", "m", "d">>}

\* str.lower() on a sequence of characters.
LowerChar(c) == CASE c = "P" -> "p" [] c = "T" -> "t" [] OTHER -> c
LowerChars(cs) == [i \in 1..Len(cs) |-> LowerChar(cs[i])]

\* `needle in hay` of two strings.
Contains(hay, needle) ==
    \E i \in 0..(Len(hay) - Len(needle)) :
        \A j \in 1..Len(needle) : hay[i + j] = needle[j]

\* create_lovable_database.split_text: the category of a chunk of the file.
SplitTextCategory(source_file) ==
    LET name == LowerChars(source_file)
    IN  CASE Contains(name, <<"p", "r", "o", "m", "p", "t", "i", "n", "g">>) -> "prompting"
          [] Contains(name, <<"u", "i", "_", "d", "e", "s", "i", "g", "n">>) -> "ui_design"
          [] Contains(name, <<"a", "p", "i", "_", "i", "n", "t", "e", "g", "r", "a", "t", "i", "o", "n">>)
                -> "integration"
          [] Contains(name, <<"d", "e", "b", "u", "g", "g", "i", "n", "g">>) -> "debugging"
          [] OTHER -> "general"

\* create_lovable_database_gemini: the category of a chunk of the file.
GeminiScriptCategory(filename) ==
    LET name == LowerChars(filename)
    IN  CASE Contains(name, <<"p", "r", "o", "m", "p", "t", "i", "n", "g">>) -> "prompting"
          [] Contains(name, <<"u", "i", "_", "d", "e", "s", "i", "g", "n">>)
               \/ Contains(name, <<"u", "i">>) -> "ui_design"
          [] Contains(name, <<"a", "p", "i">>)
               \/ Contains(name, <<"i", "n", "t", "e", "g", "r", "a", "t", "i", "o", "n">>)
                -> "integration"
          [] Contains(name, <<"d", "e", "b", "u", "g">>) -> "debugging"
          [] Contains(name, <<"p", "e", "r", "f", "o", "r", "m", "a", "n", "c", "e">>)
                -> "performance"
          [] Contains(name, <<"a", "c", "c", "e", "s", "s", "i", "b", "i", "l", "i", "t", "y">>)
                -> "accessibility"
          [] OTHER -> "general"

\* LovablePromptGeneratorGemini._create_vector_store: the category of a chunk of
\* the file; the name is tested as it is written.
LovableCategory(filename) ==
    CASE Contains(filename, <<"p", "r", "o", "m", "p", "t", "i", "n", "g">>) -> "prompting"
      [] Contains(filename, <<"u", "i", "_", "d", "e", "s", "i", "g", "n">>) -> "ui_design"
      [] Contains(filename, <<"a", "p", "i", "_", "i", "n", "t", "e", "g", "r", "a", "t", "i", "o", "n">>)
            -> "integration"
      [] Contains(filename, <<"d", "e", "b", "u", "g", "g", "i", "n", "g">>) -> "debugging"
      [] OTHER -> "general"

Categorized(filename, category) ==
    [NoResult EXCEPT !.op = "categorize", !.outcome = "returned",
                     !.filename = filename, !.category = category]

\* split_text gives the chunks of a file their category.
SplitTextCategorize ==
    /\ kind = "db_script" /\ Idle
    /\ \E f \in FileNames : result' = Categorized(f, SplitTextCategory(f))
    /\ UNCHANGED <<collections, inflight, env, manager, kind, phase, registry, vector_stores>>

\* create_lovable_database_gemini gives the chunks of a file their category.
GeminiScriptCategorize ==
    /\ kind = "db_script_gemini" /\ Idle
    /\ \E f \in FileNames : result' = Categorized(f, GeminiScriptCategory(f))
    /\ UNCHANGED <<collections, inflight, env, manager, kind, phase, registry, vector_stores>>

\* _create_vector_store of LovablePromptGeneratorGemini gives the chunks of a file
\* their category.
LovableCategorize ==
    /\ kind = "lovable_gemini" /\ phase = "ready" /\ Idle
    /\ \E f \in FileNames : result' = Categorized(f, LovableCategory(f))
    /\ UNCHANGED <<collections, inflight, env, manager, kind, phase, registry, vector_stores>>

\* ======================================================= EmbeddingManager
\* get_collection(reset): the manager afterwards.
GetCollection(m, reset) ==
    LET deleted == IF reset /\ m.cached THEN NoManager ELSE m
    IN  IF deleted.cached THEN deleted
        ELSE IF deleted.exists THEN [deleted EXCEPT !.cached = TRUE]
        ELSE [cached |-> TRUE, exists |-> TRUE, ids |-> {}]

\* add_documents(documents, ids): ids are made up from the positions in the list
\* when none are given; collection.add stores the records whose id is new.
ManagerAddDocuments(m, ids) ==
    LET got == GetCollection(m, FALSE)
    IN  [got EXCEPT !.ids = got.ids \cup ids]

\* The ids of the batch that starts at position i of n documents.
BatchIds(i, n, batch_size, with_ids) ==
    LET len == Min(batch_size, n - i)
    IN  IF with_ids THEN {CallerId(j) : j \in i..(i + len - 1)}
        ELSE {GeneratedId(j) : j \in 0..(len - 1)}

\* add_documents_batch(documents, ids, batch_size): the manager after the batches
\* from position i on.
RECURSIVE AddDocumentsBatch(_, _, _, _, _)
AddDocumentsBatch(m, i, n, batch_size, with_ids) ==
    IF i >= n THEN m
    ELSE AddDocumentsBatch(ManagerAddDocuments(m, BatchIds(i, n, batch_size, with_ids)),
                           i + batch_size, n, batch_size, with_ids)

ManagerGetCollection ==
    /\ kind = "embedding_manager" /\ Idle
    /\ \E reset \in BOOLEAN :
         /\ manager' = GetCollection(manager, reset)
         /\ result' = [NoResult EXCEPT !.op = "get_collection", !.outcome = "returned",
                                       !.reset = reset, !.ids_before = manager.ids,
                                       !.ids_after = manager'.ids]
    /\ UNCHANGED <<collections, inflight, env, kind, phase, registry, vector_stores>>

ManagerAddDocumentsBatch ==
    /\ kind = "embedding_manager" /\ Idle
    /\ \E n \in 1..MaxDocs, batch_size \in 1..MaxDocs, with_ids \in BOOLEAN :
         /\ manager' = AddDocumentsBatch(manager, 0, n, batch_size, with_ids)
         /\ result' = [NoResult EXCEPT !.op = "add_documents_batch",
                                       !.outcome = "returned", !.n = n,
                                       !.batch_size = batch_size, !.with_ids = with_ids,
                                       !.ids_before = manager.ids,
                                       !.ids_after = manager'.ids]
    /\ UNCHANGED <<collections, inflight, env, kind, phase, registry, vector_stores>>

\* ======================================================== chunking
\* Text is a sequence of characters; NL is the newline character.
NL == "\n"
Texts(n) == UNION {[1..k -> {"a", NL}] : k \in 0..n}

\* The pieces of a text between its newlines.
RECURSIVE SplitOnNewline(_)
SplitOnNewline(s) ==
    IF s = <<>> THEN << <<>> >>
    ELSE LET rest == SplitOnNewline(Tail(s))
         IN  IF Head(s) = NL THEN << <<>> >> \o rest
             ELSE << <<Head(s)>> \o Head(rest) >> \o Tail(rest)

\* str.splitlines(): no empty last line after a final newline.
SplitLines(s) ==
    LET pieces == SplitOnNewline(s)
    IN  IF pieces[Len(pieces)] = <<>> THEN SubSeq(pieces, 1, Len(pieces) - 1) ELSE pieces

\* sep.join(lines)
RECURSIVE Join(_, _)
Join(lines, sep) ==
    IF lines = <<>> THEN <<>>
    ELSE IF Len(lines) = 1 THEN Head(lines)
    ELSE Head(lines) \o sep \o Join(Tail(lines), sep)

\* The separator the chunker joins the lines of a chunk with, "\\n" in the source:
\* a backslash and the letter n.
ChunkSeparator == <<"\\", "n">>

\* Document ids, f"{tool_name}_{file_name}", as the pieces that tell them apart:
\* the second id starts with the first.
DocIds == {<<"cursor_", "prompt">>, <<"cursor_", "prompt", ".txt">>}
StartsWith(s, prefix) == Len(prefix) <= Len(s) /\ SubSeq(s, 1, Len(prefix)) = prefix
IndexText(i) == <<"0", "1", "2", "3", "4", "5", "6", "7">>[i + 1]

\* process_tool_documentation: a document, whose metadata names the file it is.
Doc(id, content) ==
    [id |-> id, content |-> content, file |-> id, is_chunk |-> FALSE,
     chunk_index |-> -1, total_chunks |-> -1, line_count |-> Len(SplitLines(content))]
Docs == {Doc(id, content) : id \in DocIds, content \in Texts(MaxContent)}
DocLists ==
    {<<d>> : d \in Docs}
      \cup {<<p[1], p[2]>> : p \in {q \in Docs \X Docs : q[1].id # q[2].id}}

\* The chunk document built from the lines collected so far.
ChunkDoc(doc, current_chunk, chunk_index, total_chunks) ==
    [id |-> doc.id \o <<"_chunk_", IndexText(chunk_index)>>,
     content |-> Join(current_chunk, ChunkSeparator), file |-> doc.file,
     is_chunk |-> TRUE, chunk_index |-> chunk_index, total_chunks |-> total_chunks,
     line_count |-> Len(current_chunk)]

\* The loop over the lines of a document, and the final chunk after it.
RECURSIVE ChunkLines(_, _, _, _, _, _)
ChunkLines(lines, current_chunk, current_size, chunk_index, doc, max_chunk_size) ==
    IF lines = <<>>
    THEN IF current_chunk # <<>>
         THEN <<ChunkDoc(doc, current_chunk, chunk_index, chunk_index + 1)>>
         ELSE <<>>
    ELSE LET line == Head(lines)
             line_size == Len(line) + 1
         IN  IF current_size + line_size > max_chunk_size /\ current_chunk # <<>>
             THEN <<ChunkDoc(doc, current_chunk, chunk_index, -1)>>
                    \o ChunkLines(Tail(lines), <<line>>, line_size, chunk_index + 1,
                                  doc, max_chunk_size)
             ELSE ChunkLines(Tail(lines), Append(current_chunk, line),
                             current_size + line_size, chunk_index, doc, max_chunk_size)

\* "Update total_chunks for all chunks": every chunk collected so far whose id
\* starts with the id of the document.
UpdateTotalChunks(chunked_docs, doc, total_chunks) ==
    [i \in 1..Len(chunked_docs) |->
        IF StartsWith(chunked_docs[i].id, doc.id) /\ chunked_docs[i].is_chunk
        THEN [chunked_docs[i] EXCEPT !.total_chunks = total_chunks]
        ELSE chunked_docs[i]]

\* chunk_large_documents(documents, max_chunk_size), from the documents left on.
RECURSIVE ChunkLargeDocuments(_, _, _)
ChunkLargeDocuments(chunked_docs, documents, max_chunk_size) ==
    IF documents = <<>> THEN chunked_docs
    ELSE LET doc == Head(documents)
         IN  IF Len(doc.content) <= max_chunk_size
             THEN ChunkLargeDocuments(Append(chunked_docs, doc), Tail(documents),
                                      max_chunk_size)
             ELSE LET chunks == ChunkLines(SplitLines(doc.content), <<>>, 0, 0, doc,
                                           max_chunk_size)
                      total_chunks == chunks[Len(chunks)].chunk_index + 1
                  IN  ChunkLargeDocuments(
                          UpdateTotalChunks(chunked_docs \o chunks, doc, total_chunks),
                          Tail(documents), max_chunk_size)

\* chunk_large_documents reads nothing of the updater it is a method of; "chunker"
\* is a process that calls it on documents of its own.
UpdaterChunkLargeDocuments ==
    /\ kind = "chunker" /\ Idle
    /\ \E documents \in DocLists, max_chunk_size \in 1..MaxChunkSize :
         result' = [NoResult EXCEPT !.op = "chunk", !.outcome = "returned",
                                    !.documents = documents,
                                    !.max_chunk_size = max_chunk_size,
                                    !.chunked = ChunkLargeDocuments(<<>>, documents,
                                                                    max_chunk_size)]
    /\ UNCHANGED <<collections, inflight, env, manager, kind, phase, registry, vector_stores>>

\* ========================================================== validation
PromptFeatures ==
    {[NoFeatures EXCEPT !.length = l, !.names_tool = t, !.sections = n,
                        !.technical = d] :
        l \in {"short", "ok", "long"}, t \in BOOLEAN, n \in 0..3, d \in BOOLEAN}

ResultFeatures ==
    {[NoFeatures EXCEPT !.length = l, !.sections = n, !.confidence = c,
                        !.sources = s, !.next_stage = x] :
        l \in {"short", "ok", "long"}, n \in 0..3, c \in {0, 5, 7, 10},
        s \in BOOLEAN, x \in BOOLEAN}

\* ToolSpecificPromptGenerator.validate_prompt(prompt, tool): the score.
ToolSpecificValidationScore(f) ==
    (IF f.length = "ok" THEN 30 ELSE 0)
      + (IF f.names_tool THEN 20 ELSE 0)
      + 15 * f.sections
      + (IF f.technical THEN 15 ELSE 0)

ToolSpecificValidatePromptResult(f) ==
    [score |-> ToolSpecificValidationScore(f),
     is_valid |-> ToolSpecificValidationScore(f) >= 70]

\* MultiToolPromptGenerator.validate_prompt_result(result): the score before the
\* minimum with 100 is taken.
BasicValidationScore(f) ==
    (IF f.length = "ok" THEN 25 ELSE 0)
      + (IF f.confidence >= 7 THEN 25 ELSE IF f.confidence >= 5 THEN 15 ELSE 0)
      + (IF f.sources THEN 20 ELSE 0)
      + (IF f.next_stage THEN 15 ELSE 0)
      + (f.sections * 15) \div 3

BasicValidatePromptResult(f) ==
    [score |-> Min(100, BasicValidationScore(f)),
     is_valid |-> BasicValidationScore(f) >= 70]

Validated(f, v) ==
    [NoResult EXCEPT !.op = "validate", !.outcome = "returned", !.features = f,
                     !.score = v.score, !.is_valid = v.is_valid]

ToolSpecificValidatePrompt ==
    /\ kind = "tool_specific" /\ phase = "ready" /\ Idle
    /\ \E f \in PromptFeatures :
          result' = Validated(f, ToolSpecificValidatePromptResult(f))
    /\ UNCHANGED <<collections, inflight, env, manager, kind, phase, registry, vector_stores>>

BasicValidatePrompt ==
    /\ kind = "basic" /\ phase = "ready" /\ Idle
    /\ \E f \in ResultFeatures : result' = Validated(f, BasicValidatePromptResult(f))
    /\ UNCHANGED <<collections, inflight, env, manager, kind, phase, registry, vector_stores>>

\* ===================================================== document loading
\* ToolSpecificPromptGenerator._create_vector_store: each file is opened inside its
\* own try, and a file that cannot be read is printed and left out.
ToolSpecificLoadedFiles(folders) ==
    {d \in DocTools \X DocFiles : folders[d] = "ok"}

\* AIToolsRAGUpdater.process_tool_documentation(tool): each file of the tool is
\* read inside its own try.
UpdaterProcessToolDocumentation(folders, tool) ==
    {d \in {tool} \X DocFiles : folders[d] = "ok"}

\* The files the loader's pattern "**/*.{txt,md,json}" matches: pathlib knows no
\* brace alternatives, so none of the .md files.
GeminiGlob(files) == {}

\* GeminiToolSpecificPromptGenerator._load_documents: one try around the loader of
\* a whole folder, so a file of the folder that cannot be read loses the folder.
GeminiLoadedFiles(folders) ==
    UNION {IF \E f \in GeminiGlob(DocFiles) : folders[<<t, f>>] = "unreadable"
           THEN {} ELSE {t} \X GeminiGlob(DocFiles) : t \in DocTools}

Loaded(folders, files, error) ==
    [NoResult EXCEPT !.op = "load", !.outcome = IF error = "" THEN "returned" ELSE "raised",
                     !.error = error, !.folders = folders, !.loaded = files]

\* _create_vector_store loads the folders, and raises when it loaded nothing.
ToolSpecificLoad ==
    /\ kind = "tool_specific" /\ Idle
    /\ \E folders \in Folders :
         LET documents == ToolSpecificLoadedFiles(folders)
         IN  result' = Loaded(folders, documents,
                              IF documents = {} THEN "ValueError" ELSE "")
    /\ UNCHANGED <<collections, inflight, env, manager, kind, phase, registry, vector_stores>>

\* update_database processes the documentation of every tool of the index.
UpdaterLoad ==
    /\ kind = "db_updater" /\ Idle
    /\ \E folders \in Folders :
         result' = Loaded(folders,
                          UNION {UpdaterProcessToolDocumentation(folders, t) : t \in DocTools},
                          "")
    /\ UNCHANGED <<collections, inflight, env, manager, kind, phase, registry, vector_stores>>

\* _load_documents of the Gemini generator.
GeminiLoad ==
    /\ kind = "gemini_tool" /\ Idle
    /\ \E folders \in Folders : result' = Loaded(folders, GeminiLoadedFiles(folders), "")
    /\ UNCHANGED <<collections, inflight, env, manager, kind, phase, registry, vector_stores>>

\* ====================================================== command lines
\* The configuration file given with --config: absent, not JSON, JSON without a
\* required key, or complete.
ConfigFiles == {"none", "missing", "malformed", "nokey", "ok"}

CliArgs ==
    {[NoArgs EXCEPT !.task = t, !.project = p, !.interactive = i,
                    !.suggestions = s, !.output = o, !.init = n,
                    !.gen_ok = g, !.write_ok = w] :
        t \in BOOLEAN, p \in BOOLEAN, i \in BOOLEAN, s \in BOOLEAN, o \in BOOLEAN,
        n \in {"ok", "error"}, g \in BOOLEAN, w \in BOOLEAN}

GeminiCliArgs ==
    {[NoArgs EXCEPT !.example = e, !.config = c, !.output = o, !.rag = r,
                    !.init = n, !.gen_ok = g, !.write_ok = w] :
        e \in BOOLEAN, c \in ConfigFiles, o \in BOOLEAN, r \in BOOLEAN,
        n \in {"ok", "import_error", "error"}, g \in BOOLEAN, w \in BOOLEAN}

Exit(code, wrote) == [code |-> code, wrote |-> wrote]

\* The prompt goes to the output file when one is given and can be opened, and to
\* standard output when none is given.
OutputPrompt(args) ==
    IF args.output /\ ~args.write_ok THEN Exit(1, FALSE) ELSE Exit(0, TRUE)

\* generate_prompt.main
CliMainExit(args) ==
    IF args.init # "ok" THEN Exit(1, FALSE)
    ELSE IF args.suggestions THEN Exit(0, FALSE)
    ELSE IF ~args.interactive /\ (~args.task \/ ~args.project) THEN Exit(1, FALSE)
    ELSE IF ~args.gen_ok THEN Exit(1, FALSE)
    ELSE OutputPrompt(args)

\* A variant of batch_mode that hands on whatever it could read.
BatchModeUnchecked(config) == config # "missing"

\* generate_prompt_gemini.batch_mode: TRUE when it returns a task context and a
\* project, FALSE when it returns (None, None).
BatchMode(config) == config = "ok"

\* generate_prompt_gemini.main
GeminiMainExit(args, chroma_exists) ==
    IF args.example THEN Exit(0, FALSE)
    ELSE IF args.config # "none" /\ ~BatchMode(args.config) THEN Exit(1, FALSE)
    ELSE IF args.rag /\ chroma_exists /\ args.init = "error" THEN Exit(1, FALSE)
    ELSE IF ~args.gen_ok THEN Exit(1, FALSE)
    ELSE OutputPrompt(args)

Exited(op, args, exit) ==
    [NoResult EXCEPT !.op = op, !.outcome = "returned", !.args = args,
                     !.exit_code = exit.code, !.wrote_prompt = exit.wrote]

CliMain ==
    /\ kind = "cli" /\ Idle
    /\ \E args \in CliArgs : result' = Exited("cli_main", args, CliMainExit(args))
    /\ UNCHANGED <<collections, inflight, env, manager, kind, phase, registry, vector_stores>>

GeminiCliMain ==
    /\ kind = "cli_gemini" /\ Idle
    /\ \E args \in GeminiCliArgs :
          result' = Exited("gemini_main", args, GeminiMainExit(args, chromaExists))
    /\ UNCHANGED <<collections, inflight, env, manager, kind, phase, registry, vector_stores>>

\* ========================================================= index writers
\* The chunk lists handed to a writer: at least one chunk.
Writes == {w \in Indexes : \E t \in DocTools : w[t] > 0}

\* The result of a write of w that turned index `before` into what chroma' is;
\* repeat tells that the call before it, with no other call in between, wrote
\* the same chunks.
WriteResult(w, before, error) ==
    [NoResult EXCEPT
       !.op = "write", !.outcome = "returned", !.error = error,
       !.written = w, !.before = before,
       !.repeat = (result.op = "write" /\ result.error = "" /\ result.written = w)]

\* save_to_chroma(chunks): the persisted directory is removed, then
\* Chroma.from_documents builds the index from the chunks alone.
SaveToChroma(idx, chunks) == chunks

\* create_lovable_database.py: generate_data_store -> save_to_chroma.
SaveToChromaRun ==
    /\ kind = "db_script"
    /\ Idle \/ result.op = "write"
    /\ \E chunks \in Writes :
         /\ chroma' = SaveToChroma(chroma, chunks)
         /\ result' = WriteResult(chunks, chroma, "")
    /\ chromaExists' = TRUE
    /\ UNCHANGED <<collections, inflight, configDir, configFiles, docsOnDisk, yamlStrategies, manager, kind, phase,
                   registry, vector_stores>>

\* AIToolsDBUpdater.__init__: the storage directory is made, the persistent client
\* opened and the collection fetched or created; stored chunks are kept.
UpdaterConstruct ==
    /\ kind = "db_updater" /\ phase = "new"
    /\ chromaExists' = TRUE
    /\ vector_stores' = {SingleStore}
    /\ phase' = "ready"
    /\ result' = [NoResult EXCEPT !.op = "construct", !.outcome = "returned"]
    /\ UNCHANGED <<collections, inflight, configDir, configFiles, docsOnDisk, chroma, yamlStrategies, manager, kind,
                   registry>>

\* Variant: a record whose id is already stored is stored once more.
CollectionAddDuplicates(idx, documents) ==
    [t \in DocTools |-> idx[t] + documents[t]]

\* collection.add(ids, documents, metadatas) with the ids
\* "<tool>_<file>_chunk_<i>": a record whose id is already stored is ignored (the
\* PersistentClient releases of chromadb), the others are added to what is stored.
CollectionAdd(idx, documents) ==
    [t \in DocTools |-> IF idx[t] >= documents[t] THEN idx[t] ELSE documents[t]]

\* update_database -> add_documents_to_db.
UpdaterUpdateDatabase ==
    /\ kind = "db_updater" /\ phase = "ready"
    /\ Idle \/ result.op = "write"
    /\ \E documents \in Writes :
         /\ chroma' = CollectionAdd(chroma, documents)
         /\ result' = WriteResult(documents, chroma, "")
    /\ UNCHANGED <<collections, inflight, configDir, configFiles, docsOnDisk, chromaExists, yamlStrategies,
                   manager, kind, phase, registry, vector_stores>>

\* vector_store.add_documents(splits): every chunk is stored under a fresh id, next
\* to what the store holds.
AddDocuments(idx, splits) == [t \in DocTools |-> idx[t] + splits[t]]

\* update_vector_store(new_documents) of the Gemini generator; the store is set
\* once the generator is constructed, so the chunks are added to it.  A failure of
\* the splitter or of the embedding provider is caught and printed.
GeminiUpdateVectorStore ==
    /\ kind = "gemini_tool" /\ phase = "ready"
    /\ Idle \/ result.op = "write"
    /\ \E new_documents \in Writes, fails \in BOOLEAN :
         /\ \A t \in DocTools : chroma[t] + new_documents[t] <= MaxChunks
         /\ chroma' = IF fails THEN chroma ELSE AddDocuments(chroma, new_documents)
         /\ result' = WriteResult(new_documents, chroma,
                                  IF fails THEN "ProviderUnavailable" ELSE "")
    /\ UNCHANGED <<collections, inflight, configDir, configFiles, docsOnDisk, chromaExists, yamlStrategies,
                   manager, kind, phase, registry, vector_stores>>

\* The caller takes the result (or the exception) of the call; the generator is
\* ready for the next call.  Calls are served one at a time.
Return ==
    /\ result.op # "none"
    /\ result' = NoResult
    /\ UNCHANGED <<collections, inflight, env, manager, kind, phase, registry, vector_stores>>

Next ==
    \/ BasicConstruct
    \/ BasicGenerate
    \/ BasicCalculateConfidence
    \/ BasicRetrieve
    \/ BasicSuggestNext
    \/ EnhancedConstruct
    \/ EnhancedGenerate
    \/ EnhancedSuggestNext
    \/ AppGenerate
    \/ ToolSpecificConstruct
    \/ ToolSpecificGenerate
    \/ ToolSpecificRetrieve
    \/ GeminiConstruct
    \/ GeminiGenerate
    \/ GeminiRetrieve
    \/ LovableConstruct
    \/ LovableGenerate
    \/ GeminiUpdateVectorStore
    \/ SaveToChromaRun
    \/ UpdaterConstruct
    \/ UpdaterUpdateDatabase
    \/ SplitTextCategorize
    \/ GeminiScriptCategorize
    \/ LovableCategorize
    \/ ToolSpecificLoad
    \/ UpdaterLoad
    \/ GeminiLoad
    \/ ManagerGetCollection
    \/ ManagerAddDocumentsBatch
    \/ UpdaterChunkLargeDocuments
    \/ ToolSpecificValidatePrompt
    \/ BasicValidatePrompt
    \/ CliMain
    \/ GeminiCliMain
    \/ QueryScriptMain
    \/ BasicFilterContext
    \/ AppServerConstruct
    \/ \E t \in Threads : ThreadReceive(t)
    \/ \E t \in Threads : ThreadGetProfile(t)
    \/ \E t \in Threads : ThreadGetCollection(t)
    \/ \E t \in Threads : ThreadQuery(t)
    \/ \E t \in Threads : ThreadRespond(t)
    \/ Return

Spec == Init /\ [][Next]_vars

\* ================================================================ claims
\* The calls whose result carries a confidence score the generator computed.
Scored ==
    /\ kind \in {"basic", "enhanced"}
    /\ result.outcome = "returned"
    /\ result.op \in {"generate", "confidence"}

\* C1: whatever the input signals (number of retrieved chunks, task type preferred
\* by the tool or not, each requirements list empty or not), the confidence score
\* the basic and the enhanced generator compute lies in [0, 1] (0..10 tenths).
C1_ConfidenceInUnitInterval ==
    Scored => (result.confidence >= 0 /\ result.confidence <= 10)

\* C1 witness: the basic score with every bonus earned, where the sum of the
\* weights exceeds 1.0 and only the clip keeps the score in range.
C1_Witness ==
    /\ kind = "basic" /\ result.op = "confidence"
    /\ Len(result.retrieved) >= 3
    /\ result.request.technical_requirements # <<>>
    /\ result.request.ui_requirements # <<>>
    /\ Lower(result.request.task_type) = "app development"
    /\ result.confidence = 10

\* A generate call, of one of the given generator classes, that has ended.
Generated(kinds) == kind \in kinds /\ result.op = "generate"

\* C2: when the template of the requested tool and stage is missing or fails to
\* render, MultiToolPromptGenerator.generate_prompt still returns a PromptResult
\* with a non-empty prompt, no sources and confidence exactly 0.4.
C2_FallbackGuarantee ==
    (Generated({"basic"}) /\ result.request.template # "ok")
        => /\ result.outcome = "returned"
           /\ result.prompt.parts # <<>>
           /\ result.sources = <<>>
           /\ result.confidence = 4

\* C3: a request for a tool name that is no known tool neither raises nor gets an
\* error message for a prompt: it is rendered with the default profile, whose tone
\* is "professional".
C3_UnknownToolDefaultProfile ==
    (Generated({"gemini_tool", "tool_specific"}) /\ result.request.tool = UnknownToolName)
        => /\ result.outcome = "returned"
           /\ result.error = ""
           /\ result.tone = "professional"

\* C4: once MultiToolPromptGenerator is constructed, every member of SupportedTool
\* has a profile in tool_profiles, config file or not.
C4_EveryToolHasProfile ==
    (kind = "basic" /\ phase = "ready") => DOMAIN registry = SupportedTool

\* C5: a well-formed request (target tool a member of SupportedTool, any stage, any
\* requirement lists) gets a prompt result; no exception escapes to the caller.
C5_NoExceptionEscapes ==
    (Generated({"basic", "enhanced"}) /\ result.request.tool \in SupportedTool)
        => result.outcome = "returned"

\* The retrieval step is the only thing that fails in the call: the similarity
\* query raises, while the tool is configured, the template renders and the
\* strategies of the configuration are of the kind the generator reads.
OnlyRetrievalFails ==
    /\ result.request.query_fails
    /\ result.request.template = "ok"
    /\ result.request.tool \in DOMAIN registry
    /\ kind = "tool_specific" => yamlStrategies = "templates"

\* C6: when only the retrieval step fails, the generator still returns a rendered
\* prompt, with no retrieved context in it.
C6_RetrievalFailureDegrades ==
    (Generated({"lovable_gemini", "enhanced", "tool_specific"}) /\ OnlyRetrievalFails)
        => /\ result.outcome = "returned"
           /\ result.prompt.parts # <<>>
           /\ result.prompt.context = <<>>

\* A retrieval for a tool was issued, directly or within a generate call.
RetrievedFor(kinds) ==
    /\ kind \in kinds
    /\ result.op \in {"retrieve", "generate"}
    /\ result.queried

OnlyChunksOfRequestedTool ==
    \A i \in 1..Len(result.retrieved) : result.retrieved[i].tool = result.request.tool

C8_MissingIndexDegrades ==
    [][(kind \in {"tool_specific", "basic"} /\ phase = "new" /\ ~chromaExists)
          => phase' = "ready"]_vars

HasPart(p) == p \in Range(result.prompt.parts)

\* C9: a prompt rendered after a retrieval that returned no chunk has no "Relevant
\* Documentation" section and has the project, task and tool-guideline sections;
\* with at least one chunk retrieved the section is there.
C9_DocumentationSectionIffContext ==
    (/\ Generated({"tool_specific", "gemini_tool"})
     /\ result.outcome = "returned" /\ result.queried)
        => /\ HasPart("## Relevant Documentation") <=> result.retrieved # <<>>
           /\ result.prompt.context # <<>> <=> result.retrieved # <<>>
           /\ kind = "tool_specific" =>
                 HasPart("## Project: ") /\ HasPart("## Task Details") /\ HasPart(" Guidelines")
           /\ kind = "gemini_tool" =>
                 /\ HasPart("## Project Information") /\ HasPart("## Task Context")
                 /\ HasPart("## Implementation Strategy")

\* C9 witness: a prompt rendered for a configured tool whose retrieval found nothing
\* although the index holds chunks of another tool.
C9_Witness ==
    /\ Generated({"tool_specific"})
    /\ result.outcome = "returned" /\ result.queried
    /\ ~result.request.query_fails
    /\ result.retrieved = <<>>
    /\ \E t \in DocTools : chroma[t] > 0
    /\ ~HasPart("## Relevant Documentation")

\* The request of C10: no requirements at all, lovable, app_skeleton.
BareLovableSkeleton ==
    /\ result.outcome = "returned"
    /\ result.request.tool = "lovable"
    /\ result.request.stage = "app_skeleton"
    /\ result.request.technical_requirements = <<>>
    /\ result.request.ui_requirements = <<>>
    /\ result.request.constraints = <<>>

NamesProjectAndTask ==
    HasPart(result.request.project_name) /\ HasPart(result.request.description)

\* C10 as claimed: for that request the rendered prompt contains the project name
\* and the task description, and the confidence score is at most 0.7 whatever the
\* retrieval returns and whatever the task type.
C10_Original ==
    (Scored /\ BareLovableSkeleton)
        => /\ result.op = "generate" => NamesProjectAndTask
           /\ result.confidence <= 7

\* C10 amended: the prompt contains the project name and the task description; the
\* enhanced generator's score is at most 0.8, and at most 0.7 when the task type is
\* not among the tool's preferred use cases; the basic generator's score is at
\* most 1.0.
C10_BareRequestScore ==
    (Scored /\ BareLovableSkeleton)
        => /\ result.op = "generate" => NamesProjectAndTask
           /\ kind = "enhanced" =>
                 /\ result.confidence <= 8
                 /\ result.request.task_type \notin registry["lovable"].preferred_use_cases
                       => result.confidence <= 7
           /\ kind = "basic" => result.confidence <= 10

\* C10 witness: the enhanced generator scores such a request 0.8.
C10_Witness ==
    /\ Generated({"enhanced"}) /\ BareLovableSkeleton
    /\ NamesProjectAndTask
    /\ result.retrieved # <<>>
    /\ result.confidence = 8

\* The task type of the scored request is among the preferred use cases of the
\* profile the score was computed with.
TaskTypePreferred ==
    IF kind = "basic"
    THEN Lower(result.request.task_type)
            \in {Lower(u) : u \in BasicDefaultProfile(result.request.tool).preferred_use_cases}
    ELSE result.request.task_type \in registry[result.request.tool].preferred_use_cases

\* The score the specification describes, in tenths, for a given task-type bonus.
WeightedSum(task_bonus) ==
    Min(10, 5 + (IF result.retrieved # <<>> THEN 2 ELSE 0)
              + (IF Len(result.retrieved) >= 3 THEN 1 ELSE 0)
              + task_bonus
              + (IF result.request.technical_requirements # <<>> THEN 1 ELSE 0)
              + (IF result.request.ui_requirements # <<>> THEN 1 ELSE 0))

\* C11: the confidence score is 0.5 plus independent bonuses, clipped to [0, 1]:
\* +0.2 when any context was retrieved, +0.1 more for three chunks or more, +0.1 to
\* +0.2 when the task type is among the tool's preferred use cases, +0.1 for
\* non-empty technical requirements and, independently, +0.1 for non-empty UI
\* requirements.
C11_ScoreIsWeightedSum ==
    Scored => \E task_bonus \in (IF TaskTypePreferred THEN {1, 2} ELSE {0}) :
                  result.confidence = WeightedSum(task_bonus)

\* A call of _suggest_next_stage has returned.
Suggested == kind \in {"basic", "enhanced"} /\ result.op = "next_stage"

\* C12: in the basic and in the enhanced generator the stage suggested after
\* app_skeleton is page_ui and the stage suggested after optimization is none.
C12_SkeletonThenPageUi ==
    /\ (Suggested /\ result.request.stage = "app_skeleton") => result.next_stage = "page_ui"
    /\ (Suggested /\ result.request.stage = "optimization") => result.next_stage = None
    /\ (Generated({"enhanced"}) /\ result.outcome = "returned"
          /\ result.request.stage = "app_skeleton") => result.next_stage = "page_ui"
    /\ (Generated({"enhanced"}) /\ result.outcome = "returned"
          /\ result.request.stage = "optimization") => result.next_stage = None

\* C12 witness: a generated result of the enhanced generator for the last stage,
\* which suggests no further stage.
C12_Witness ==
    /\ Generated({"enhanced"}) /\ result.outcome = "returned"
    /\ result.request.stage = "optimization"
    /\ result.next_stage = None

\* Position of a stage in the order of the progression; debugging is outside it.
StageRank(stage) ==
    CASE stage = "app_skeleton" -> 1
      [] stage = "page_ui" -> 2
      [] stage = "flow_connections" -> 3
      [] stage = "feature_specific" -> 4
      [] stage = "optimization" -> 5
      [] OTHER -> 0

\* C13: following the suggestions from any stage never revisits a stage, never
\* moves backwards in the order app_skeleton, page_ui, flow_connections,
\* feature_specific, optimization, and ends with "none" after at most five steps.
C13_ForwardOnlyProgression ==
    Suggested =>
        /\ Len(result.walk) <= 5
        /\ \A i, j \in 1..Len(result.walk) :
              i < j => /\ result.walk[i] # result.walk[j]
                       /\ (StageRank(result.walk[i]) > 0 /\ StageRank(result.walk[j]) > 0)
                             => StageRank(result.walk[i]) < StageRank(result.walk[j])
        /\ result.next_stage # None
              => /\ result.next_stage \notin Range(result.walk)
                 /\ Len(result.walk) < 5

\* C13 witness: the longest walk, from app_skeleton through every stage of the
\* order, has ended with no further suggestion at its fifth step.
C13_Witness ==
    /\ Suggested /\ kind = "basic"
    /\ result.walk = <<"app_skeleton", "page_ui", "flow_connections",
                       "feature_specific", "optimization">>
    /\ result.next_stage = None

\* A write to the index has completed without a failure.
Wrote(kinds) ==
    kind \in kinds /\ result.op = "write" /\ result.outcome = "returned" /\ result.error = ""

\* C14: every operation that writes chunks to the index is a full rebuild: once
\* it has completed the persisted index holds exactly the chunks of that write,
\* and none that an earlier write stored.
C14_WriteIsFullRebuild ==
    Wrote({"db_script", "db_updater", "gemini_tool"}) => chroma = result.written

C16_GenerateIsStateless ==
    [][(result.op = "none" /\ result'.op \in {"generate", "app_generate"})
          => /\ registry' = registry
             /\ vector_stores' = vector_stores
             /\ chroma' = chroma
             /\ collections' = collections]_vars

\* C17: while threads that share the one generator serve requests concurrently, no
\* step of a request writes to the registry or to the index, and every response is
\* one the request gets when it is served alone.
C17_ConcurrentRequestsOnlyRead ==
    [][(kind = "app_server" /\ inflight' # inflight)
          => /\ registry' = registry
             /\ chroma' = chroma
             /\ collections' = collections
             /\ \A t \in Threads :
                   inflight'[t].pc = "done"
                      => inflight'[t].response
                            \in ThreadResponses(registry', chroma', inflight'[t].tool)]_vars

\* C18: in an index a generator builds, every stored chunk's tool is a tool that
\* has a profile in the configuration registry of that generator.
C18_IndexedToolsHaveProfiles ==
    [][(kind \in {"tool_specific", "gemini_tool"} /\ phase = "new" /\ ~chromaExists
          /\ phase' = "ready")
          => \A t \in DocTools : chroma'[t] > 0 => t \in DOMAIN registry']_vars

\* C19: template selection never produces an error: the basic generator renders a
\* prompt from the first template level that is available, the template of the
\* (tool, stage) when it is there and renders, a generic one otherwise.
C19_TemplateFallbackNeverFails ==
    Generated({"basic"})
        => /\ result.outcome = "returned"
           /\ result.prompt.parts # <<>>
           /\ result.fallback <=> result.request.template # "ok"

\* A scored query has been answered.
Queried(k) == kind = k /\ result.op = "query"

\* C20 as claimed: a query uses at most k results, best first, none of the results
\* passed on as context scores below the threshold, and no context at all is used
\* when the best result scores below the cutoff.
C20_Original ==
    /\ Queried("query_script")
          => /\ Len(result.used) <= ScriptK /\ Descending(result.used)
             /\ \A i \in 1..Len(result.used) : result.used[i] >= ScriptCutoff
             /\ (result.scores # <<>> /\ result.scores[1] < ScriptCutoff)
                   => result.used = <<>>
    /\ Queried("basic")
          => /\ Len(result.used) <= BasicK /\ Descending(result.used)
             /\ \A i \in 1..Len(result.used) : result.used[i] >= BasicThreshold
             /\ (result.scores # <<>> /\ result.scores[1] < BasicThreshold)
                   => result.used = <<>>

\* C20 amended: a query uses at most k results, best first.  The basic generator
\* passes on only results that score above its threshold, so none when the best
\* one does not.  The query script uses no context when the best result scores
\* below the cutoff and otherwise passes on every result of the search, whatever
\* the scores of the others.
C20_ThresholdPolicy ==
    /\ Queried("query_script")
          => /\ Len(result.used) <= ScriptK /\ Descending(result.used)
             /\ IF result.scores = <<>> \/ result.scores[1] < ScriptCutoff
                THEN result.used = <<>>
                ELSE result.used = result.scores
    /\ Queried("basic")
          => /\ Len(result.used) <= BasicK /\ Descending(result.used)
             /\ \A i \in 1..Len(result.used) : result.used[i] > BasicThreshold
             /\ (result.scores # <<>> /\ result.scores[1] <= BasicThreshold)
                   => result.used = <<>>

\* C20 witness: the script passes on k results, the best above the cutoff and the
\* last below it.
C20_Witness ==
    /\ Queried("query_script")
    /\ Len(result.used) = ScriptK
    /\ result.used[1] >= ScriptCutoff
    /\ result.used[ScriptK] < ScriptCutoff

\* C30: the two generators that suggest a next stage agree: for every stage the
\* basic and the enhanced _suggest_next_stage return the same stage, or both none.
C30_NextStageTablesAgree ==
    Suggested
        => /\ result.next_stage = BasicSuggestNextStage(result.request.stage)
           /\ result.next_stage = EnhancedSuggestNextStage(result.request.stage)

\* C21: every chunk gets exactly one category from its file name, always one of
\* prompting, ui_design, integration, debugging and general, and the same file
\* name gets the same category in every index builder.
C21_OneCategoryRuleList ==
    result.op = "categorize"
        => /\ result.category
                \in {"prompting", "ui_design", "integration", "debugging", "general"}
           /\ result.category = SplitTextCategory(result.filename)
           /\ result.category = GeminiScriptCategory(result.filename)
           /\ result.category = LovableCategory(result.filename)

\* The run lacks a required field or cannot load its configuration.
MissingFieldOrConfig ==
    \/ /\ result.op = "cli_main"
       /\ \/ result.args.init # "ok"
          \/ ~result.args.interactive /\ (~result.args.task \/ ~result.args.project)
    \/ /\ result.op = "gemini_main"
       /\ result.args.config \in {"missing", "malformed", "nokey"}

\* The run was asked for task suggestions or for the example configuration.
HelperMode ==
    \/ result.op = "cli_main" /\ result.args.suggestions
    \/ result.op = "gemini_main" /\ result.args.example

\* C22 as stated: a run with a missing field or unloadable configuration exits 1
\* and writes no prompt, and exit code 0 comes only after the prompt was written.
C22_Original ==
    result.op \in {"cli_main", "gemini_main"}
        => /\ MissingFieldOrConfig
                => result.exit_code = 1 /\ ~result.wrote_prompt
           /\ result.exit_code = 0 => result.wrote_prompt

\* C22: outside the helper modes a run with a missing field or unloadable
\* configuration exits 1 and writes no prompt (a generator that cannot be built
\* does so in every mode of generate_prompt); exit code 0 comes only after the
\* prompt was written, or in a helper mode, which writes none.
C22_ExitCodes ==
    result.op \in {"cli_main", "gemini_main"}
        => /\ (\/ MissingFieldOrConfig /\ ~HelperMode
               \/ result.op = "cli_main" /\ result.args.init # "ok")
                => result.exit_code = 1 /\ ~result.wrote_prompt
           /\ result.exit_code = 0 => (result.wrote_prompt \/ HelperMode)
           /\ HelperMode /\ result.exit_code = 0 => ~result.wrote_prompt

C22_Witness ==
    /\ result.op = "gemini_main"
    /\ result.args.config = "malformed"
    /\ ~result.args.example
    /\ result.exit_code = 1

\* C23: loading the documents does not fail over a file that cannot be read: the
\* load returns, and every readable file, those next to an unreadable one in the
\* same folder included, is among the loaded documents.
C23_UnreadableFileSkipped ==
    result.op = "load"
        => /\ result.outcome = "returned"
           /\ result.loaded = ReadableFiles(result.folders)

\* C24: get_collection(reset=True) hands back a collection that holds none of the
\* documents stored before, whether or not a handle was cached and whether or not
\* the collection was persisted.
C24_ResetGivesEmptyCollection ==
    result.op = "get_collection" /\ result.reset
        => /\ result.ids_after = {}
           /\ manager.cached /\ manager.exists /\ manager.ids = {}

\* C28: add_documents_batch without ids, over more documents than one batch holds,
\* gives every document an id of its own, so that the collection grows by the
\* number of documents.
C28_BatchIdsDistinct ==
    /\ result.op = "add_documents_batch"
    /\ ~result.with_ids
    /\ result.batch_size < result.n
    /\ result.ids_before = {}
    => Cardinality(result.ids_after) = result.n

\* The documents chunk_large_documents made of the document at a position of its
\* input, in the order of the output.
RECURSIVE Select(_, _)
Select(docs, file) ==
    IF docs = <<>> THEN <<>>
    ELSE IF Head(docs).file = file THEN <<Head(docs)>> \o Select(Tail(docs), file)
    ELSE Select(Tail(docs), file)

RECURSIVE LinesOf(_)
LinesOf(docs) ==
    IF docs = <<>> THEN <<>> ELSE SplitLines(Head(docs).content) \o LinesOf(Tail(docs))

\* C25: chunk_large_documents never produces a chunk larger than max_chunk_size.
C25_ChunkWithinMaxSize ==
    result.op = "chunk"
        => \A i \in 1..Len(result.chunked) :
              Len(result.chunked[i].content) <= result.max_chunk_size

\* C26: chunk_large_documents loses nothing: a document no longer than
\* max_chunk_size is returned unchanged, and for a longer one the lines of its
\* chunks, taken in chunk_index order, are the lines of the document, each once and
\* in order, and no chunk is empty.
C26_ChunkingLosesNothing ==
    result.op = "chunk"
        => \A k \in 1..Len(result.documents) :
              LET doc == result.documents[k]
                  made == Select(result.chunked, doc.file)
              IN  IF Len(doc.content) <= result.max_chunk_size
                  THEN made = <<doc>>
                  ELSE /\ LinesOf(made) = SplitLines(doc.content)
                       /\ \A i \in 1..Len(made) :
                             /\ made[i].chunk_index = i - 1
                             /\ made[i].content # <<>>

\* C27: every chunk's total_chunks is the number of chunks made of its own source
\* document and its chunk_index lies in 0..total_chunks-1, also when the id of one
\* document is the beginning of the id of another.
C27_TotalChunksPerDocument ==
    result.op = "chunk"
        => \A i \in 1..Len(result.chunked) :
              LET c == result.chunked[i]
              IN  c.is_chunk
                    => /\ c.total_chunks = Len(Select(result.chunked, c.file))
                       /\ c.chunk_index \in 0..(c.total_chunks - 1)

\* C29: the validation score lies in 0..100 for every prompt and tool, and
\* is_valid holds exactly when the reported score reaches the threshold of 70.
C29_ValidationScoreRange ==
    result.op = "validate"
        => /\ result.score \in 0..100
           /\ result.is_valid <=> result.score >= 70

=============================================================================
